---- MODULE Spec2Model ----
(***************************************************************************)
(* Model of the process-wide ErrorTracker and its crash-capture hook       *)
(* (src/src/core/infrastructure/error_handler.rs).                         *)
(*                                                                         *)
(* The tracker keeps five independently locked fields (errors, sequence,   *)
(* error_count, warning_count, critical_count).  Every statement of the    *)
(* source that takes a lock and releases it at the end of the statement is *)
(* one atomic step; get_summary() builds its result in one struct          *)
(* expression, so the four guards it takes stay alive until the function   *)
(* returns and are modelled as held across steps.                          *)
(*                                                                         *)
(* The values the tracker is fed from are modelled as operators: the       *)
(* ErrorValue builder and record_app_error() (src/src/core/error.rs), and  *)
(* the backend's AppError kinds, Error, ResultExt and ErrorHandler         *)
(* (src/core/backend/src/error/).  SpecApp, SpecValue, SpecError and       *)
(* SpecHandler apply them to bounded sets of inputs.                       *)
(***************************************************************************)
EXTENDS Integers, Sequences, FiniteSets, TLC

(***************************** record fields *******************************)
\* the fields of the records below, in the order every record lists them
FieldOrder ==
    [sequence |-> 0, id |-> 0, severity |-> 0, code |-> 0, kind |-> 0,
     source |-> 0, message |-> 0, details |-> 0, field |-> 0, cause |-> 0,
     context |-> 0, backtrace |-> 0, total |-> 0, errors |-> 0, error_count
     |-> 0, warning_count |-> 0, critical_count |-> 0, warnings |-> 0,
     critical |-> 0, pushed |-> 0, level |-> 0, text |-> 0, n |-> 0, first
     |-> 0, rest |-> 0, layer |-> 0, variant |-> 0, subject |-> 0, detail |-> 0, extra |-> 0, success
     |-> 0, tag |-> 0, op |-> 0, key |-> 0, value |-> 0, error |-> 0,
     include_backtrace |-> 0, include_source |-> 0, error_codes |-> 0,
     DbConnectionFailed |-> 0, DbQueryFailed |-> 0, DbConstraintViolation
     |-> 0, DbNotFound |-> 0, DbAlreadyExists |-> 0, ConfigNotFound |-> 0,
     ConfigInvalid |-> 0, ConfigMissingField |-> 0, SerializationFailed |->
     0, DeserializationFailed |-> 0, InvalidFormat |-> 0, ValidationFailed
     |-> 0, MissingRequiredField |-> 0, InvalidFieldValue |-> 0,
     ResourceNotFound |-> 0, UserNotFound |-> 0, EntityNotFound |-> 0,
     LockPoisoned |-> 0, InternalError |-> 0, Unknown |-> 0, holds |-> 0]

(***************************** bounds **************************************)
\* errors a behaviour of SpecKinds classifies
MaxKinds == 2
\* calls a behaviour of Spec may start (all threads together)
MaxOps == 3
\* calls the single thread of SpecSeq may start
MaxSeqOps == 3
\* calls a behaviour of SpecCrash may start (all threads together)
MaxCrashOps == 2
\* injected uncaught crashes per behaviour
MaxFaults == 1
\* calls of init_error_handling() per behaviour
MaxInits == 2
\* record_app_error() calls a behaviour of SpecApp may start
MaxAppOps == 2
\* codes an ErrorHandler of SpecHandler has a mapping for
MaxCodes == 2
\* builder calls chained on an ErrorValue of SpecValue
MaxChain == 3
\* Error::with_context calls chained on an Error of SpecError
MaxAttach == 3
\* failures ResultExt::with_context is called on in SpecError
MaxResults == 2
\* calls a behaviour of SpecLive may start (all threads together)
MaxLiveOps == 3

(***************************** constants ***********************************)
MAX_ERROR_HISTORY == 100

Threads == {"t1", "t2"}
SeqThread == "t1"
NoThread == "none"

Severities == {"Info", "Warning", "Error", "Critical"}

Locks == {"errors", "sequence", "error_count", "warning_count", "critical_count"}

\* arguments of get_recent(limit) that are tried: by the single thread of
\* SpecSeq, by the threads of Spec
Limits == {0, 1, 2, MAX_ERROR_HISTORY, MAX_ERROR_HISTORY + 1}
ConcLimits == {0, 2}

\* severities the threads of SpecCrash record
CrashSeverities == {"Warning"}

\* panic payloads: a &str, a String, or any other type
Payloads == {[kind |-> "str", text |-> "boom"], [kind |-> "other", text |-> ""]}

Min(a, b) == IF a < b THEN a ELSE b

(***************************** ErrorEntry **********************************)
\* ErrorEntry::new: id is 0 until record() assigns it
NewEntry(sev, src, msg) ==
    [id |-> 0, severity |-> sev, source |-> src, message |-> msg]

NoEntry == [id |-> 0, severity |-> "none", source |-> "", message |-> ""]

NoSummary == [total |-> 0, errors |-> 0, warnings |-> 0, critical |-> 0]

(***************************** record() ************************************)
\* mutant: the counter is read but the increment is lost
NextSequenceLost(seq) == seq

\* `*seq += 1`
NextSequence(seq) == seq + 1

\* `entry.id = *seq`
WithId(e, id) == [e EXCEPT !.id = id]

\* mutant: Critical is counted with Error, as it is logged with Error
CounterOfMerged(severity) ==
    CASE severity = "Warning" -> "warning_count"
      [] severity \in {"Error", "Critical"} -> "error_count"
      [] OTHER -> "none"

\* the match on entry.severity: the counter a severity bumps, "none" for Info
CounterOf(severity) ==
    CASE severity = "Warning" -> "warning_count"
      [] severity = "Error" -> "error_count"
      [] severity = "Critical" -> "critical_count"
      [] OTHER -> "none"

\* mutant: the eviction loop is missing
EvictNothing(q) == q

\* mutant: the newest entry is dropped instead of the oldest
RECURSIVE EvictNewest(_)
EvictNewest(q) ==
    IF Len(q) > MAX_ERROR_HISTORY THEN EvictNewest(SubSeq(q, 1, Len(q) - 1)) ELSE q

\* `while errors.len() > MAX_ERROR_HISTORY { errors.pop_front(); }`
RECURSIVE Evict(_)
Evict(q) == IF Len(q) > MAX_ERROR_HISTORY THEN Evict(Tail(q)) ELSE q

\* `errors.push_back(entry)` followed by the eviction loop, with nothing
\* running in between
PushBack(q, e) == Evict(Append(q, e))

(***************************** get_recent() ********************************)
\* `.iter().rev()`
Rev(q) == [i \in 1..Len(q) |-> q[Len(q) + 1 - i]]

\* `.take(limit)`
Take(s, n) == SubSeq(s, 1, Min(n, Len(s)))

\* mutant: the iterator is not reversed
GetOldest(q, limit) == Take(q, limit)

\* `errors.iter().rev().take(limit).cloned().collect()`
GetRecent(q, limit) == Take(Rev(q), limit)

(***************************** crash hook **********************************)
\* the message extracted from the panic payload
PanicMessage(payload) ==
    IF payload.kind \in {"str", "String"} THEN payload.text ELSE "Unknown panic"

\* mutant: the crash is recorded as an ordinary Error
CrashEntryAsError(message) == NewEntry("Error", "PANIC", message)

\* the entry the hook synthesizes
CrashEntry(message) == NewEntry("Critical", "PANIC", message)

(***************************** Option<T> ***********************************)
None == <<>>
Some(x) == <<x>>

(***************************** AppError (kinds.rs) *************************)
\* the variants of the four error layers
DomainVariants == {"NotFound", "Validation", "BusinessRule", "Conflict"}
InfrastructureVariants == {"Database", "FileSystem", "Network", "Serialization"}
ApplicationVariants == {"InvalidState", "Timeout", "Canceled", "Internal"}
PluginVariants == {"NotFound", "LoadFailed", "InitFailed", "DependencyMissing"}

\* values the fields of a variant are given
Details == {"a", "b"}
Entities == {"User", "Item"}
Ids == {"123", "1"}

\* values the optional fields are given: Validation's value, Database's
\* source, Network's status
Value == "v"
Source == "s"
Status == "503"
\* the operations of FileSystem errors
Operations == {"read", "write"}

\* an AppError: its layer, its variant, and the values of its fields; of a
\* variant's fields `detail` is the message (or the field its Display writes
\* last), `subject` the field beside it, and `extra` the third field where
\* there is one: Validation's value, Database's source and Network's status,
\* each an Option, and FileSystem's operation
AppKindOf(l, v, s, d, x) ==
    [layer |-> l, variant |-> v, subject |-> s, detail |-> d, extra |-> x]

\* the value the other field has where only the detail varies
SubjectOf(l, v) ==
    CASE l = "Domain" /\ v = "NotFound" -> "User"
      [] l = "Domain" /\ v = "Validation" -> "email"
      [] l = "Domain" /\ v = "BusinessRule" -> "r"
      [] l = "Domain" /\ v = "Conflict" -> "r"
      [] l = "Infrastructure" /\ v = "Database" -> "query"
      [] l = "Infrastructure" /\ v = "FileSystem" -> "p"
      [] l = "Infrastructure" /\ v = "Network" -> "u"
      [] l = "Infrastructure" /\ v = "Serialization" -> "json"
      [] l = "Application" /\ v = "InvalidState" -> "e"
      [] l = "Application" /\ v = "Timeout" -> "1"
      [] l = "Application" /\ v = "Canceled" -> "o"
      [] l = "Plugin" /\ v \in {"LoadFailed", "InitFailed", "DependencyMissing"} -> "p"
      [] OTHER -> ""

\* the third field where it is not given: an absent Option, the operation
\* "read"
ExtraOf(l, v) ==
    IF l = "Infrastructure" /\ v = "FileSystem" THEN Some("read") ELSE None

AppKind(l, v, d) == AppKindOf(l, v, SubjectOf(l, v), d, ExtraOf(l, v))

\* AppError::not_found, AppError::validation, DomainError::validation_with_value
NotFound(entity, id) == AppKindOf("Domain", "NotFound", entity, id, None)
Validation(field, message) == AppKindOf("Domain", "Validation", field, message, None)
ValidationWithValue(field, message, value) ==
    AppKindOf("Domain", "Validation", field, message, Some(value))

\* errors whose third field is given
Database(operation, message, source) ==
    AppKindOf("Infrastructure", "Database", operation, message, Some(source))
Network(url, message, status) ==
    AppKindOf("Infrastructure", "Network", url, message, Some(status))
FileSystem(path, operation, message) ==
    AppKindOf("Infrastructure", "FileSystem", path, message, Some(operation))

AppKinds ==
    {AppKind("Domain", v, d) : v \in DomainVariants, d \in Details}
    \cup {AppKind("Infrastructure", v, d) : v \in InfrastructureVariants, d \in Details}
    \cup {AppKind("Application", v, d) : v \in ApplicationVariants, d \in Details}
    \cup {AppKind("Plugin", v, d) : v \in PluginVariants, d \in Details}
    \cup {NotFound(e, i) : e \in Entities, i \in Ids}
    \cup {ValidationWithValue("email", d, Value) : d \in Details}
    \cup {Database("query", d, Source) : d \in Details}
    \cup {Network("u", d, Status) : d \in Details}
    \cup {FileSystem("p", o, d) : o \in Operations, d \in Details}

\* AppError::code
AppErrorCode(kind) ==
    CASE kind.layer = "Domain" ->
           (CASE kind.variant = "NotFound" -> "NOT_FOUND"
              [] kind.variant = "Validation" -> "VALIDATION_ERROR"
              [] kind.variant = "BusinessRule" -> "BUSINESS_RULE_VIOLATION"
              [] kind.variant = "Conflict" -> "CONFLICT")
      [] kind.layer = "Infrastructure" ->
           (CASE kind.variant = "Database" -> "DATABASE_ERROR"
              [] kind.variant = "FileSystem" -> "FILE_SYSTEM_ERROR"
              [] kind.variant = "Network" -> "NETWORK_ERROR"
              [] kind.variant = "Serialization" -> "SERIALIZATION_ERROR")
      [] kind.layer = "Application" ->
           (CASE kind.variant = "InvalidState" -> "INVALID_STATE"
              [] kind.variant = "Timeout" -> "TIMEOUT"
              [] kind.variant = "Canceled" -> "CANCELED"
              [] kind.variant = "Internal" -> "INTERNAL_ERROR")
      [] kind.layer = "Plugin" ->
           (CASE kind.variant = "NotFound" -> "PLUGIN_NOT_FOUND"
              [] kind.variant = "LoadFailed" -> "PLUGIN_LOAD_FAILED"
              [] kind.variant = "InitFailed" -> "PLUGIN_INIT_FAILED"
              [] kind.variant = "DependencyMissing" -> "PLUGIN_DEPENDENCY_MISSING")

\* mutant: the variant's name decides, whatever the family
IsNotFoundAnyFamily(kind) == kind.variant = "NotFound"

\* AppError::is_not_found, is_validation, is_conflict, is_database, is_timeout,
\* is_internal
IsNotFound(kind) == kind.layer = "Domain" /\ kind.variant = "NotFound"
IsValidation(kind) == kind.layer = "Domain" /\ kind.variant = "Validation"
IsConflict(kind) == kind.layer = "Domain" /\ kind.variant = "Conflict"
IsDatabase(kind) == kind.layer = "Infrastructure" /\ kind.variant = "Database"
IsTimeout(kind) == kind.layer = "Application" /\ kind.variant = "Timeout"
IsInternal(kind) == kind.layer = "Application" /\ kind.variant = "Internal"

\* what Display writes for an optional field: nothing when it is absent
Suffix(x, open) == IF x = None THEN "" ELSE open \o x[1] \o ")"

\* Display for the layer enums: the text of the variant with its fields
VariantDisplay(kind) ==
    CASE kind.layer = "Domain" ->
           (CASE kind.variant = "NotFound" ->
                   kind.subject \o " not found: " \o kind.detail
              [] kind.variant = "Validation" ->
                   "Validation failed for '" \o kind.subject \o "': " \o kind.detail
                       \o Suffix(kind.extra, " (value: ")
              [] kind.variant = "BusinessRule" ->
                   "Business rule '" \o kind.subject \o "' violated: " \o kind.detail
              [] kind.variant = "Conflict" ->
                   "Conflict on '" \o kind.subject \o "': " \o kind.detail)
      [] kind.layer = "Infrastructure" ->
           (CASE kind.variant = "Database" ->
                   "Database " \o kind.subject \o " failed: " \o kind.detail
                       \o Suffix(kind.extra, " (")
              [] kind.variant = "FileSystem" ->
                   "File system " \o kind.extra[1] \o " on '" \o kind.subject
                       \o "' failed: " \o kind.detail
              [] kind.variant = "Network" ->
                   "Network request to '" \o kind.subject \o "' failed: " \o kind.detail
                       \o Suffix(kind.extra, " (status: ")
              [] kind.variant = "Serialization" ->
                   kind.subject \o " serialization failed: " \o kind.detail)
      [] kind.layer = "Application" ->
           (CASE kind.variant = "InvalidState" ->
                   "Invalid state: got '" \o kind.detail \o "', expected '"
                       \o kind.subject \o "'"
              [] kind.variant = "Timeout" ->
                   "Operation '" \o kind.detail \o "' timed out after "
                       \o kind.subject \o "ms"
              [] kind.variant = "Canceled" ->
                   "Operation '" \o kind.subject \o "' canceled: " \o kind.detail
              [] kind.variant = "Internal" -> "Internal error: " \o kind.detail)
      [] kind.layer = "Plugin" ->
           (CASE kind.variant = "NotFound" -> "Plugin not found: " \o kind.detail
              [] kind.variant = "LoadFailed" ->
                   "Failed to load plugin '" \o kind.subject \o "': " \o kind.detail
              [] kind.variant = "InitFailed" ->
                   "Failed to initialize plugin '" \o kind.subject \o "': " \o kind.detail
              [] kind.variant = "DependencyMissing" ->
                   "Plugin '" \o kind.subject \o "' missing dependency: " \o kind.detail)

\* Display for AppError
AppErrorDisplay(kind) == kind.layer \o " error: " \o VariantDisplay(kind)

\* the predicates of AppError that hold of an error
Predicates(kind) ==
    {p \in {"is_not_found", "is_validation", "is_conflict", "is_database",
             "is_timeout", "is_internal"} :
        CASE p = "is_not_found" -> IsNotFound(kind)
          [] p = "is_validation" -> IsValidation(kind)
          [] p = "is_conflict" -> IsConflict(kind)
          [] p = "is_database" -> IsDatabase(kind)
          [] p = "is_timeout" -> IsTimeout(kind)
          [] p = "is_internal" -> IsInternal(kind)}

\* what a caller reads off an AppError: code(), to_string(), the predicates
Observe(kind) ==
    [code |-> AppErrorCode(kind), kind |-> kind, text |-> AppErrorDisplay(kind),
     holds |-> Predicates(kind)]

(***************************** HashMap<String, String> *********************)
\* a map is a function from the keys it holds
EmptyMap == [k \in {} |-> ""]

\* mutant: an occupied key keeps its value
MapInsertIfVacant(m, key, value) ==
    [k \in DOMAIN m \cup {key} |-> IF k \in DOMAIN m THEN m[k] ELSE value]

\* HashMap::insert
MapInsert(m, key, value) ==
    [k \in DOMAIN m \cup {key} |-> IF k = key THEN value ELSE m[k]]

\* HashMap::get(..).cloned()
MapGet(m, key) == IF key \in DOMAIN m THEN Some(m[key]) ELSE None

(***************************** Error (error.rs) ****************************)
\* Error::new
ErrorNew(kind) ==
    [kind |-> kind, source |-> None, message |-> AppErrorDisplay(kind),
     context |-> EmptyMap]

\* Error::with_message
ErrorWithMessage(kind, msg) ==
    [kind |-> kind, source |-> None, message |-> msg, context |-> EmptyMap]

\* Error::with_context
ErrorWithContext(e, key, value) ==
    [e EXCEPT !.context = MapInsert(e.context, key, value)]

\* Error::with_source
ErrorWithSource(e, cause) == [e EXCEPT !.source = Some(cause)]

\* Error::code
ErrorCodeOf(e) == AppErrorCode(e.kind)

\* Error::context_value
ContextValue(e, key) == MapGet(e.context, key)

NoError == ErrorWithMessage(AppKind("none", "none", ""), "")

(***************************** ResultExt (result_ext.rs) *******************)
\* a Result: Ok with its value or Err with its error
Ok(v) == [tag |-> "Ok", value |-> Some(v), error |-> None]
Err(e) == [tag |-> "Err", value |-> None, error |-> Some(e)]

\* mutant: the context is computed before the outcome is looked at
ClosureCallsEager(r) == 1

\* how often `self.map_err(|e| { let context = f(); .. })` invokes f
ClosureCalls(r) == IF r.tag = "Err" THEN 1 ELSE 0

\* the Result that with_context(f) returns, `context` being what f returns
ResultWithContext(r, ctx) ==
    IF r.tag = "Err"
    THEN Err(ErrorWithMessage(r.error[1], ctx \o ": " \o AppErrorDisplay(r.error[1])))
    ELSE r

\* mutant: the error is wrapped without the context in front of its text
ResultContextBare(r, ctx) ==
    IF r.tag = "Err"
    THEN Err(ErrorWithMessage(r.error[1], AppErrorDisplay(r.error[1])))
    ELSE r

\* the Result that context(ctx) returns
ResultContext(r, ctx) ==
    IF r.tag = "Err"
    THEN Err(ErrorWithMessage(r.error[1], ctx \o ": " \o AppErrorDisplay(r.error[1])))
    ELSE r

\* mutant: the error names a fixed entity, as map_not_found does
OkOrNotFoundResource(o, entity, id) ==
    IF o = None THEN Err(NotFound("Resource", id)) ELSE Ok(o[1])

\* OptionExt::ok_or_not_found
OkOrNotFound(o, entity, id) ==
    IF o = None THEN Err(NotFound(entity, id)) ELSE Ok(o[1])

\* the closures given to handle(): `|v| v * 2` and `|_| -1`
OnSuccess(v) == v * 2
OnFailure(e) == -1

\* how often handle() invokes its first closure
OkRuns(r) == IF r.tag = "Ok" THEN 1 ELSE 0

\* mutant: the second closure runs whatever the Result is
ErrRunsAlways(r) == 1

\* how often handle() invokes its second closure
ErrRuns(r) == IF r.tag = "Err" THEN 1 ELSE 0

\* what handle() returns
ResultHandle(r) == IF r.tag = "Ok" THEN OnSuccess(r.value[1]) ELSE OnFailure(r.error[1])

(***************************** ErrorHandler (handler.rs) *******************)
LogLevels == {"Info", "Warn", "Error"}

\* ErrorHandler::new
HandlerNew == [include_backtrace |-> FALSE, include_source |-> FALSE,
               error_codes |-> EmptyMap]

\* ErrorHandler::with_backtrace / with_source / with_error_code
HandlerWithBacktrace(h, enable) == [h EXCEPT !.include_backtrace = enable]
HandlerWithSource(h, enable) == [h EXCEPT !.include_source = enable]
HandlerWithErrorCode(h, code, mapped) ==
    [h EXCEPT !.error_codes = MapInsert(h.error_codes, code, mapped)]

\* mutant: every Application error is logged as an error
GetLogLevelStrict(kind) ==
    CASE kind.layer = "Domain" /\ kind.variant = "NotFound" -> "Warn"
      [] kind.layer = "Domain" /\ kind.variant = "Validation" -> "Warn"
      [] OTHER -> "Error"

\* ErrorHandler::get_log_level
GetLogLevel(kind) ==
    CASE kind.layer = "Domain" /\ kind.variant = "NotFound" -> "Warn"
      [] kind.layer = "Domain" /\ kind.variant = "Validation" -> "Warn"
      [] kind.layer = "Application" -> "Warn"
      [] kind.layer = "Infrastructure" -> "Error"
      [] kind.layer = "Plugin" -> "Error"
      [] OTHER -> "Error"

\* mutant: the first registered mapping is used whatever the code
MapCodeAny(h, code) ==
    IF DOMAIN h.error_codes = {} THEN code
    ELSE h.error_codes[CHOOSE k \in DOMAIN h.error_codes : TRUE]

\* ErrorHandler::map_code
MapCode(h, code) ==
    IF MapGet(h.error_codes, code) # None THEN MapGet(h.error_codes, code)[1] ELSE code

\* ErrorHandler::error_kind_to_string
ErrorKindToString(kind) == kind.layer \o "::" \o VariantDisplay(kind)

\* the backtrace Error::new captures: one in a build with the `backtrace`
\* feature, no such field otherwise
CapturedBacktrace(feature) == IF feature THEN Some("bt") ELSE None

\* ErrorHandler::handle: the response
Handle(h, e, feature) ==
    [success |-> FALSE,
     error |-> [code |-> MapCode(h, ErrorCodeOf(e)),
                kind |-> ErrorKindToString(e.kind),
                source |-> IF h.include_source /\ e.source # None
                           THEN e.source ELSE None,
                message |-> e.message,
                context |-> e.context,
                backtrace |-> IF feature /\ h.include_backtrace
                              THEN CapturedBacktrace(feature) ELSE None]]

\* mutant: the context line is logged whether or not there is context
LogErrorWithContextLine(h, e) ==
    LET level == GetLogLevel(e.kind)
    IN  <<[level |-> level,
           text |-> "[Error] " \o e.message \o " (code: " \o ErrorCodeOf(e) \o ")"],
          [level |-> level, text |-> "Context"]>>

\* ErrorHandler::log_error: the lines written, each with its level
LogError(h, e) ==
    LET level == GetLogLevel(e.kind)
    IN  <<[level |-> level,
           text |-> "[Error] " \o e.message \o " (code: " \o ErrorCodeOf(e) \o ")"]>>
        \o (IF DOMAIN e.context # {}
            THEN <<[level |-> level, text |-> "Context"]>> ELSE <<>>)

(***************************** JSON ****************************************)
\* a JSON object is a function from its keys; null and the other values
JNull == <<"null">>
JString(s) == <<"string", s>>
JBool(b) == <<"bool", b>>
JObject(m) == <<"object", m>>

\* serde's form of an Option<String>
JOption(o) == IF o = None THEN JNull ELSE JString(o[1])

\* serde's form of a HashMap<String, String>
JMap(m) == JObject([k \in DOMAIN m |-> JString(m[k])])

\* the members of a JSON object, to which (key, value) is added
JInsert(obj, key, value) ==
    [k \in DOMAIN obj \cup {key} |-> IF k = key THEN value ELSE obj[k]]

\* ErrorResponse::to_json: the json! object, and the backtrace inserted in
\* a build with the `backtrace` feature
ToJson(r, feature) ==
    LET error == [code |-> JString(r.error.code),
                  kind |-> JString(r.error.kind),
                  source |-> JOption(r.error.source),
                  message |-> JString(r.error.message),
                  context |-> JMap(r.error.context)]
        full == IF feature /\ r.error.backtrace # None
                THEN JInsert(error, "backtrace", JString(r.error.backtrace[1]))
                ELSE error
    IN  [success |-> JBool(r.success), error |-> JObject(full)]

NoResponse ==
    [success |-> FALSE,
     error |-> [code |-> "", kind |-> "", source |-> None, message |-> "",
                context |-> EmptyMap, backtrace |-> None]]
NoJson == ToJson(NoResponse, FALSE)

(***************************** ErrorCode (core/error.rs) *******************)
\* the enum's variants with their discriminants
ErrorCodeNumbers ==
    [DbConnectionFailed |-> 1000, DbQueryFailed |-> 1001,
     DbConstraintViolation |-> 1002, DbNotFound |-> 1003, DbAlreadyExists |-> 1004,
     ConfigNotFound |-> 2000, ConfigInvalid |-> 2001, ConfigMissingField |-> 2002,
     SerializationFailed |-> 3000, DeserializationFailed |-> 3001,
     InvalidFormat |-> 3002,
     ValidationFailed |-> 4000, MissingRequiredField |-> 4001,
     InvalidFieldValue |-> 4002,
     ResourceNotFound |-> 5000, UserNotFound |-> 5001, EntityNotFound |-> 5002,
     LockPoisoned |-> 6000, InternalError |-> 6999, Unknown |-> 9999]

ErrorCodes == DOMAIN ErrorCodeNumbers

\* Display for ErrorCode
ErrorCodeDisplay(code) ==
    CASE code = "DbConnectionFailed" -> "DB_CONNECTION_FAILED"
      [] code = "DbQueryFailed" -> "DB_QUERY_FAILED"
      [] code = "DbConstraintViolation" -> "DB_CONSTRAINT_VIOLATION"
      [] code = "DbNotFound" -> "DB_NOT_FOUND"
      [] code = "DbAlreadyExists" -> "DB_ALREADY_EXISTS"
      [] code = "ConfigNotFound" -> "CONFIG_NOT_FOUND"
      [] code = "ConfigInvalid" -> "CONFIG_INVALID"
      [] code = "ConfigMissingField" -> "CONFIG_MISSING_FIELD"
      [] code = "SerializationFailed" -> "SERIALIZATION_FAILED"
      [] code = "DeserializationFailed" -> "DESERIALIZATION_FAILED"
      [] code = "InvalidFormat" -> "INVALID_FORMAT"
      [] code = "ValidationFailed" -> "VALIDATION_FAILED"
      [] code = "MissingRequiredField" -> "MISSING_REQUIRED_FIELD"
      [] code = "InvalidFieldValue" -> "INVALID_FIELD_VALUE"
      [] code = "ResourceNotFound" -> "RESOURCE_NOT_FOUND"
      [] code = "UserNotFound" -> "USER_NOT_FOUND"
      [] code = "EntityNotFound" -> "ENTITY_NOT_FOUND"
      [] code = "LockPoisoned" -> "LOCK_POISONED"
      [] code = "InternalError" -> "INTERNAL_ERROR"
      [] code = "Unknown" -> "UNKNOWN"

(***************************** ErrorValue (core/error.rs) ******************)
\* ErrorValue::new
ErrorValueNew(code, msg) ==
    [code |-> code, message |-> msg, details |-> None, field |-> None,
     cause |-> None, context |-> None]

\* mutant: setting the details drops the field
WithDetailsClearsField(v, details) ==
    [v EXCEPT !.details = Some(details), !.field = None]

\* ErrorValue::with_details / with_field / with_cause
WithDetails(v, details) == [v EXCEPT !.details = Some(details)]
WithField(v, field) == [v EXCEPT !.field = Some(field)]
WithCause(v, cause) == [v EXCEPT !.cause = Some(cause)]

\* ErrorValue::with_context: `get_or_insert_with(HashMap::new).insert(..)`
WithContext(v, key, value) ==
    [v EXCEPT !.context =
        Some(MapInsert(IF v.context = None THEN EmptyMap ELSE v.context[1], key, value))]

\* one builder call as a value
BuilderCall(op, key, value) == [op |-> op, key |-> key, value |-> value]

\* the builder call applied
ApplyCall(v, c) ==
    CASE c.op = "with_details" -> WithDetails(v, c.value)
      [] c.op = "with_field" -> WithField(v, c.value)
      [] c.op = "with_cause" -> WithCause(v, c.value)
      [] c.op = "with_context" -> WithContext(v, c.key, c.value)

\* `if let Some(ref x) = self.x { map.insert("x", json!(x)); }`
InsertIfSome(obj, key, o, json) == IF o = None THEN obj ELSE JInsert(obj, key, json)

\* mutant: the derived Serialize form without skip_serializing_if, and the
\* code as its discriminant
ToResponseVerbatim(v) ==
    [code |-> <<"number", ErrorCodeNumbers[v.code]>>,
     message |-> JString(v.message),
     details |-> JOption(v.details),
     field |-> JOption(v.field),
     cause |-> JOption(v.cause),
     context |-> IF v.context = None THEN JNull ELSE JMap(v.context[1])]

\* ErrorValue::to_response
ToResponse(v) ==
    LET m0 == [code |-> JString(ErrorCodeDisplay(v.code)),
               message |-> JString(v.message)]
        m1 == InsertIfSome(m0, "details", v.details, JOption(v.details))
        m2 == InsertIfSome(m1, "field", v.field, JOption(v.field))
        m3 == InsertIfSome(m2, "cause", v.cause, JOption(v.cause))
    IN  InsertIfSome(m3, "context", v.context,
                     IF v.context = None THEN JNull ELSE JMap(v.context[1]))

NoErrorValue == ErrorValueNew("Unknown", "")

(***************************** record_app_error() **************************)
\* the severity record_app_error() gives an error of this code
AppErrorSeverity(code) ==
    CASE code \in {"InternalError", "LockPoisoned"} -> "Critical"
      [] code \in {"DbConnectionFailed", "DbQueryFailed"} -> "Error"
      [] code \in {"ValidationFailed", "ResourceNotFound"} -> "Warning"
      [] OTHER -> "Error"

\* the entry record_app_error(source, err) builds from err.to_value()
AppErrorEntry(src, v) == NewEntry(AppErrorSeverity(v.code), src, v.message)

(***************************** state ***************************************)
VARIABLES
    errors,          \* ErrorTracker.errors: the bounded history, oldest first
    sequence,        \* ErrorTracker.sequence
    error_count,     \* ErrorTracker.error_count
    warning_count,   \* ErrorTracker.warning_count
    critical_count,  \* ErrorTracker.critical_count
    owner,           \* for each mutex, the thread whose guard is alive
    poisoned,        \* the mutexes a panicking holder has poisoned
    pc,              \* each thread's position in the code
    entry,           \* record(): the `entry` argument of each thread
    limit,           \* get_recent(): the `limit` argument of each thread
    recent,          \* the last Vec returned by get_recent() to each thread
    summary,         \* the ErrorSummary each thread is building / was returned
    taken,           \* init_error_handling(): the hook chain take_hook() returned
    hookLeft,        \* capture closures the panicking thread has still to run
    hooks,           \* capture closures chained in the installed panic hook
    aborted,         \* the process was aborted by a panic inside the panic hook
    budget,          \* calls that may still be started
    faults,          \* crashes that may still be injected
    inits,           \* init_error_handling() calls that may still be started
    pushed,          \* history variable: entries pushed since the last errors.clear()
    snap,            \* history variable: the counts when a capture closure started
    err,             \* backend: the Error being built and handled
    attached,        \* history variable: the (key, value) pairs given to Error::with_context
    found,           \* the key and the result of the last Error::context_value
    checked,         \* the AppErrors classified so far, with what was read off them
    given,           \* ResultExt::with_context: the Result it was last called on
    outcome,         \* ResultExt::with_context: the Result it last returned
    closureCalls,    \* invocations of the closures given to ResultExt::with_context
    failures,        \* history variable: with_context calls made on an Err
    method,          \* the ResultExt / OptionExt method called last
    arg,             \* ResultExt::context: the context it was last given
    option,          \* OptionExt::ok_or_not_found: the Option it was last called on
    asked,           \* OptionExt::ok_or_not_found: the entity and id it was given
    converted,       \* OptionExt::ok_or_not_found: the Result it last returned
    okRuns,          \* ResultExt::handle: invocations of `ok` in the last call
    errRuns,         \* ResultExt::handle: invocations of `err` in the last call
    returned,        \* ResultExt::handle: what the last call returned
    handler,         \* backend: the ErrorHandler
    feature,         \* the build has the `backtrace` feature
    response,        \* the ErrorResponse handle() returned
    json,            \* the JSON to_json() returned
    logged,          \* the lines handle() logged
    hpc,             \* the handler's position: building, handled, serialized
    ev,              \* the ErrorValue being built
    chain,           \* history variable: the builder calls applied to ev
    resp,            \* the JSON to_response() returned
    vpc              \* the ErrorValue's position: building, responded

trackerVars == <<errors, sequence, error_count, warning_count, critical_count>>
lockVars == <<owner, poisoned>>
callVars == <<entry, limit, recent, summary>>
hookVars == <<taken, hookLeft, hooks, snap>>
boundVars == <<budget, faults, inits>>
vars == <<trackerVars, lockVars, pc, callVars, hookVars, aborted, boundVars, pushed>>

errorVars == <<err, attached, found, checked>>
extVars == <<method, arg, option, asked, converted, okRuns, errRuns, returned>>
resultVars == <<given, outcome, closureCalls, failures, extVars>>
handlerVars == <<handler, feature, response, json, logged, hpc>>
valueVars == <<ev, chain, resp, vpc>>
pureVars == <<errorVars, resultVars, handlerVars, valueVars>>
allVars == <<vars, pureVars>>

\* the tracker as a value, for computing the state sequential calls lead to
EmptyTracker ==
    [sequence |-> 0, errors |-> <<>>, error_count |-> 0, warning_count |-> 0,
     critical_count |-> 0, pushed |-> <<>>]

Bump(n, counter, name) == IF counter = name THEN n + 1 ELSE n

\* one whole record(e) with nothing running beside it
RecordWhole(T, e) ==
    LET id == NextSequence(T.sequence)
        e1 == WithId(e, id)
        c == CounterOf(e.severity)
    IN  [sequence |-> id,
         errors |-> PushBack(T.errors, e1),
         error_count |-> Bump(T.error_count, c, "error_count"),
         warning_count |-> Bump(T.warning_count, c, "warning_count"),
         critical_count |-> Bump(T.critical_count, c, "critical_count"),
         pushed |-> Append(T.pushed, e1)]

\* start-up histories: n sequential record() calls, the first of severity
\* `first`, the others of severity `rest`
Prefills ==
    {[n |-> 0, first |-> "Info", rest |-> "Info"],
     [n |-> MAX_ERROR_HISTORY - 1, first |-> "Critical", rest |-> "Info"]}

SeqPrefills ==
    {[n |-> 0, first |-> "Info", rest |-> "Info"],
     [n |-> 5, first |-> "Warning", rest |-> "Warning"],
     [n |-> MAX_ERROR_HISTORY - 1, first |-> "Critical", rest |-> "Info"],
     [n |-> MAX_ERROR_HISTORY, first |-> "Error", rest |-> "Error"]}

PrefillEntry(p, i) == NewEntry(IF i = 1 THEN p.first ELSE p.rest, "APP", "m")

\* the tracker after the record() calls number lo..hi of prefill p, run one
\* after the other from tracker T.  The range is halved, and T is read
\* before the range is entered, to keep the evaluation shallow.
RECURSIVE RunRecords(_, _, _, _)
RunRecords(T, p, lo, hi) ==
    IF T.sequence + 1 = 0 \/ lo > hi THEN T
    ELSE IF lo = hi THEN RecordWhole(T, PrefillEntry(p, lo))
    ELSE LET mid == (lo + hi) \div 2
         IN  RunRecords(RunRecords(T, p, lo, mid), p, mid + 1, hi)

Prefilled(p) == RunRecords(EmptyTracker, p, 1, p.n)

InitTracker(T, calls) ==
    /\ errors = T.errors
    /\ sequence = T.sequence
    /\ error_count = T.error_count
    /\ warning_count = T.warning_count
    /\ critical_count = T.critical_count
    /\ pushed = T.pushed
    /\ owner = [l \in Locks |-> NoThread]
    /\ poisoned = {}
    /\ pc = [t \in Threads |-> "idle"]
    /\ entry = [t \in Threads |-> NoEntry]
    /\ limit = [t \in Threads |-> 0]
    /\ recent = [t \in Threads |-> <<>>]
    /\ summary = [t \in Threads |-> NoSummary]
    /\ taken = [t \in Threads |-> 0]
    /\ hookLeft = [t \in Threads |-> 0]
    /\ snap = [t \in Threads |-> NoSummary]
    /\ hooks = 0
    /\ aborted = FALSE
    /\ budget = calls
    /\ faults = MaxFaults
    /\ inits = MaxInits

\* the values outside the tracker before anything is built
NoFound == [key |-> "", value |-> None]

ErrorIdle == err = NoError /\ attached = <<>> /\ found = NoFound /\ checked = <<>>

ResultIdle ==
    /\ given = Ok(0)
    /\ outcome = Ok(0)
    /\ closureCalls = 0
    /\ failures = 0
    /\ method = "none"
    /\ arg = ""
    /\ option = None
    /\ asked = <<"", "">>
    /\ converted = Ok(0)
    /\ okRuns = 0
    /\ errRuns = 0
    /\ returned = 0

HandlerIdle ==
    /\ handler = HandlerNew
    /\ feature = FALSE
    /\ response = NoResponse
    /\ json = NoJson
    /\ logged = <<>>
    /\ hpc = "building"

ValueIdle ==
    /\ ev = NoErrorValue
    /\ chain = <<>>
    /\ resp = ToResponse(NoErrorValue)
    /\ vpc = "building"

InitFrom(T, calls) ==
    /\ InitTracker(T, calls)
    /\ ErrorIdle
    /\ ResultIdle
    /\ HandlerIdle
    /\ ValueIdle

Init == \E p \in Prefills : InitFrom(Prefilled(p), MaxOps)

InitCrash == InitFrom(EmptyTracker, MaxCrashOps)

InitSeq == \E p \in SeqPrefills : InitFrom(Prefilled(p), MaxSeqOps)

(***************************** locks ***************************************)
\* mutant: the guard excludes nobody
CanLockUnguarded(l) == l \notin poisoned

\* Mutex::lock() returns Ok(guard): the mutex is free and not poisoned
CanLock(l) == owner[l] = NoThread /\ l \notin poisoned

\* the mutex the next statement of thread t locks
NeededLock(t) ==
    CASE pc[t] = "rec_seq" -> "sequence"
      [] pc[t] = "rec_count" -> CounterOf(entry[t].severity)
      [] pc[t] \in {"rec_store", "recent", "sum_total", "clr_errors"} -> "errors"
      [] pc[t] \in {"sum_errors", "clr_error_count"} -> "error_count"
      [] pc[t] \in {"sum_warnings", "clr_warning_count"} -> "warning_count"
      [] pc[t] \in {"sum_critical", "clr_critical_count"} -> "critical_count"
      [] OTHER -> "none"

HeldBy(t) == {l \in Locks : owner[l] = t}

\* the counts a get_summary() would read in the current state
Counts ==
    [total |-> Len(errors), errors |-> error_count, warnings |-> warning_count,
     critical |-> critical_count]

\* where a thread goes when record() / get_summary() returns: back to its
\* caller, which is the capture closure while the thread is in the panic hook
AfterRecord(t) == IF hookLeft[t] > 0 THEN "sum_total" ELSE "idle"
AfterSummary(t) == IF hookLeft[t] > 0 THEN "hook_log" ELSE "idle"

(***************************** calls ***************************************)
Call(t, label, e, lim) ==
    /\ ~aborted
    /\ pc[t] = "idle"
    /\ budget > 0
    /\ budget' = budget - 1
    /\ pc' = [pc EXCEPT ![t] = label]
    /\ entry' = [entry EXCEPT ![t] = e]
    /\ limit' = [limit EXCEPT ![t] = lim]
    /\ recent' = [recent EXCEPT ![t] = <<>>]
    /\ summary' = [summary EXCEPT ![t] = NoSummary]
    /\ UNCHANGED <<trackerVars, lockVars, hookVars, aborted, faults, inits, pushed>>
    /\ UNCHANGED pureVars

CallRecord(t, sevs) == \E sev \in sevs : Call(t, "rec_seq", NewEntry(sev, "APP", "m"), 0)
CallGetRecent(t, lims) == \E lim \in lims : Call(t, "recent", NoEntry, lim)
CallGetSummary(t) == Call(t, "sum_total", NoEntry, 0)
CallClear(t) == Call(t, "clr_errors", NoEntry, 0)

(***************************** record() steps ******************************)
\* `let mut seq = self.sequence.lock().unwrap(); *seq += 1;`
RecordNextSeq(t) ==
    /\ ~aborted
    /\ pc[t] = "rec_seq"
    /\ CanLock("sequence")
    /\ owner' = [owner EXCEPT !["sequence"] = t]
    /\ sequence' = NextSequence(sequence)
    /\ pc' = [pc EXCEPT ![t] = "rec_id"]
    /\ UNCHANGED <<errors, error_count, warning_count, critical_count, poisoned,
                   callVars, hookVars, aborted, boundVars, pushed>>
    /\ UNCHANGED pureVars

\* `entry.id = *seq; drop(seq);` and the match on the severity
RecordAssignId(t) ==
    /\ ~aborted
    /\ pc[t] = "rec_id"
    /\ entry' = [entry EXCEPT ![t] = WithId(@, sequence)]
    /\ owner' = [owner EXCEPT !["sequence"] = NoThread]
    /\ pc' = [pc EXCEPT ![t] =
                IF CounterOf(entry[t].severity) = "none" THEN "rec_log" ELSE "rec_count"]
    /\ UNCHANGED <<trackerVars, poisoned, limit, recent, summary, hookVars, aborted,
                   boundVars, pushed>>
    /\ UNCHANGED pureVars

\* *self.<severity>_count.lock().unwrap() += 1
RecordCount(t) ==
    /\ ~aborted
    /\ pc[t] = "rec_count"
    /\ CanLock(CounterOf(entry[t].severity))
    /\ error_count' = Bump(error_count, CounterOf(entry[t].severity), "error_count")
    /\ warning_count' = Bump(warning_count, CounterOf(entry[t].severity), "warning_count")
    /\ critical_count' = Bump(critical_count, CounterOf(entry[t].severity), "critical_count")
    /\ pc' = [pc EXCEPT ![t] = "rec_log"]
    /\ UNCHANGED <<errors, sequence, lockVars, callVars, hookVars, aborted, boundVars,
                   pushed>>
    /\ UNCHANGED pureVars

\* format_terminal() and the log macro: no tracker lock is held
RecordLog(t) ==
    /\ ~aborted
    /\ pc[t] = "rec_log"
    /\ pc' = [pc EXCEPT ![t] = "rec_store"]
    /\ UNCHANGED <<trackerVars, lockVars, callVars, hookVars, aborted, boundVars, pushed>>
    /\ UNCHANGED pureVars

\* `let mut errors = self.errors.lock().unwrap(); errors.push_back(entry);`
RecordStore(t) ==
    /\ ~aborted
    /\ pc[t] = "rec_store"
    /\ CanLock("errors")
    /\ owner' = [owner EXCEPT !["errors"] = t]
    /\ errors' = Append(errors, entry[t])
    /\ pushed' = Append(pushed, entry[t])
    /\ pc' = [pc EXCEPT ![t] = "rec_evict"]
    /\ UNCHANGED <<sequence, error_count, warning_count, critical_count, poisoned,
                   callVars, hookVars, aborted, boundVars>>
    /\ UNCHANGED pureVars

\* the eviction loop; the function returns and the errors guard is dropped
RecordEvict(t) ==
    /\ ~aborted
    /\ pc[t] = "rec_evict"
    /\ errors' = Evict(errors)
    /\ owner' = [owner EXCEPT !["errors"] = NoThread]
    /\ pc' = [pc EXCEPT ![t] = AfterRecord(t)]
    /\ entry' = [entry EXCEPT ![t] = IF hookLeft[t] > 0 THEN @ ELSE NoEntry]
    /\ UNCHANGED <<sequence, error_count, warning_count, critical_count, poisoned,
                   limit, recent, summary, hookVars, aborted, boundVars, pushed>>
    /\ UNCHANGED pureVars

(***************************** get_recent() ********************************)
GetRecentRead(t) ==
    /\ ~aborted
    /\ pc[t] = "recent"
    /\ CanLock("errors")
    /\ recent' = [recent EXCEPT ![t] = GetRecent(errors, limit[t])]
    /\ pc' = [pc EXCEPT ![t] = "idle"]
    /\ UNCHANGED <<trackerVars, lockVars, entry, limit, summary, hookVars, aborted,
                   boundVars, pushed>>
    /\ UNCHANGED pureVars

(***************************** get_summary() *******************************)
\* one field initializer of the ErrorSummary expression: the guard it takes
\* is a temporary of the whole expression and stays alive
SummaryField(t, at, l, field, value, next) ==
    /\ ~aborted
    /\ pc[t] = at
    /\ CanLock(l)
    /\ owner' = [owner EXCEPT ![l] = t]
    /\ summary' = [summary EXCEPT ![t][field] = value]
    /\ pc' = [pc EXCEPT ![t] = next]
    /\ UNCHANGED <<trackerVars, poisoned, entry, limit, recent, hookVars, aborted,
                   boundVars, pushed>>
    /\ UNCHANGED pureVars

SummaryTotal(t) == SummaryField(t, "sum_total", "errors", "total", Len(errors), "sum_errors")
SummaryErrors(t) ==
    SummaryField(t, "sum_errors", "error_count", "errors", error_count, "sum_warnings")
SummaryWarnings(t) ==
    SummaryField(t, "sum_warnings", "warning_count", "warnings", warning_count, "sum_critical")
SummaryCritical(t) ==
    SummaryField(t, "sum_critical", "critical_count", "critical", critical_count, "sum_drop")

\* mutant: the function returns and the guards stay alive
SummaryDropKeepsGuards(t) ==
    /\ ~aborted
    /\ pc[t] = "sum_drop"
    /\ owner' = owner
    /\ pc' = [pc EXCEPT ![t] = AfterSummary(t)]
    /\ UNCHANGED <<trackerVars, poisoned, callVars, hookVars, aborted, boundVars, pushed>>
    /\ UNCHANGED pureVars

\* the function returns: the four temporaries are dropped
SummaryDrop(t) ==
    /\ ~aborted
    /\ pc[t] = "sum_drop"
    /\ owner' = [l \in Locks |-> IF owner[l] = t THEN NoThread ELSE owner[l]]
    /\ pc' = [pc EXCEPT ![t] = AfterSummary(t)]
    /\ UNCHANGED <<trackerVars, poisoned, callVars, hookVars, aborted, boundVars, pushed>>
    /\ UNCHANGED pureVars

\* mutant: clearing the history restarts the ids
ClearErrorsAndSequence(t) ==
    /\ ~aborted
    /\ pc[t] = "clr_errors"
    /\ CanLock("errors")
    /\ errors' = <<>>
    /\ pushed' = <<>>
    /\ sequence' = 0
    /\ pc' = [pc EXCEPT ![t] = "clr_error_count"]
    /\ UNCHANGED <<error_count, warning_count, critical_count, lockVars,
                   callVars, hookVars, aborted, boundVars>>
    /\ UNCHANGED pureVars

(***************************** clear() *************************************)
ClearErrors(t) ==
    /\ ~aborted
    /\ pc[t] = "clr_errors"
    /\ CanLock("errors")
    /\ errors' = <<>>
    /\ pushed' = <<>>
    /\ pc' = [pc EXCEPT ![t] = "clr_error_count"]
    /\ UNCHANGED <<sequence, error_count, warning_count, critical_count, lockVars,
                   callVars, hookVars, aborted, boundVars>>
    /\ UNCHANGED pureVars

ClearErrorCount(t) ==
    /\ ~aborted
    /\ pc[t] = "clr_error_count"
    /\ CanLock("error_count")
    /\ error_count' = 0
    /\ pc' = [pc EXCEPT ![t] = "clr_warning_count"]
    /\ UNCHANGED <<errors, sequence, warning_count, critical_count, lockVars,
                   callVars, hookVars, aborted, boundVars, pushed>>
    /\ UNCHANGED pureVars

ClearWarningCount(t) ==
    /\ ~aborted
    /\ pc[t] = "clr_warning_count"
    /\ CanLock("warning_count")
    /\ warning_count' = 0
    /\ pc' = [pc EXCEPT ![t] = "clr_critical_count"]
    /\ UNCHANGED <<errors, sequence, error_count, critical_count, lockVars,
                   callVars, hookVars, aborted, boundVars, pushed>>
    /\ UNCHANGED pureVars

ClearCriticalCount(t) ==
    /\ ~aborted
    /\ pc[t] = "clr_critical_count"
    /\ CanLock("critical_count")
    /\ critical_count' = 0
    /\ pc' = [pc EXCEPT ![t] = "idle"]
    /\ UNCHANGED <<errors, sequence, error_count, warning_count, lockVars,
                   callVars, hookVars, aborted, boundVars, pushed>>
    /\ UNCHANGED pureVars

(***************************** init_error_handling() ***********************)
\* `let default_hook = std::panic::take_hook();` un-registers the current
\* hook and hands it to the caller
InitTakeHook(t) ==
    /\ ~aborted
    /\ pc[t] = "idle"
    /\ inits > 0
    /\ inits' = inits - 1
    /\ taken' = [taken EXCEPT ![t] = hooks]
    /\ hooks' = 0
    /\ pc' = [pc EXCEPT ![t] = "init_set"]
    /\ UNCHANGED <<trackerVars, lockVars, callVars, hookLeft, snap, aborted, budget,
                   faults, pushed>>
    /\ UNCHANGED pureVars

\* `std::panic::set_hook(Box::new(move |panic_info| { default_hook(..); .. }))`:
\* the new closure wraps the hook that was taken
InitSetHook(t) ==
    /\ ~aborted
    /\ pc[t] = "init_set"
    /\ hooks' = taken[t] + 1
    /\ taken' = [taken EXCEPT ![t] = 0]
    /\ pc' = [pc EXCEPT ![t] = "idle"]
    /\ UNCHANGED <<trackerVars, lockVars, callVars, hookLeft, snap, aborted, boundVars,
                   pushed>>
    /\ UNCHANGED pureVars

(***************************** panics **************************************)
\* Thread t panics with the guards in `held` alive.  The installed hook runs
\* in t before unwinding: each chained capture closure records a crash
\* entry.  With no capture closure installed the thread unwinds at once,
\* which drops its guards and poisons their mutexes.
StartPanic(t, message, held) ==
    IF hooks = 0
    THEN /\ pc' = [pc EXCEPT ![t] = "dead"]
         /\ owner' = [l \in Locks |-> IF l \in held THEN NoThread ELSE owner[l]]
         /\ poisoned' = poisoned \cup held
         /\ entry' = [entry EXCEPT ![t] = NoEntry]
         /\ UNCHANGED <<hookLeft, snap>>
    ELSE /\ pc' = [pc EXCEPT ![t] = "rec_seq"]
         /\ owner' = [l \in Locks |-> IF l \in held THEN t ELSE owner[l]]
         /\ entry' = [entry EXCEPT ![t] = CrashEntry(message)]
         /\ hookLeft' = [hookLeft EXCEPT ![t] = hooks]
         /\ snap' = [snap EXCEPT ![t] = Counts]
         /\ UNCHANGED poisoned

\* an uncaught crash in the code that calls the tracker (no call in flight)
Crash(t) ==
    /\ ~aborted
    /\ pc[t] = "idle"
    /\ faults > 0
    /\ faults' = faults - 1
    /\ \E payload \in Payloads : StartPanic(t, PanicMessage(payload), HeldBy(t))
    /\ UNCHANGED <<trackerVars, limit, recent, summary, taken, hooks, aborted, budget,
                   inits, pushed>>
    /\ UNCHANGED pureVars

\* an uncaught crash raised at the current statement of a tracker call
FaultInCall(t) ==
    /\ ~aborted
    /\ pc[t] \notin {"idle", "dead", "deadlocked"}
    /\ hookLeft[t] = 0
    /\ faults > 0
    /\ faults' = faults - 1
    /\ \E payload \in Payloads : StartPanic(t, PanicMessage(payload), HeldBy(t))
    /\ UNCHANGED <<trackerVars, limit, recent, summary, taken, hooks, aborted, budget,
                   inits, pushed>>
    /\ UNCHANGED pureVars

\* lock().unwrap() on a poisoned mutex: lock() acquires the mutex and returns
\* Err(PoisonError) holding the guard, unwrap() panics while that guard is
\* alive.  Inside the panic hook this is a panic while panicking: abort.
PoisonPanic(t) ==
    /\ ~aborted
    /\ NeededLock(t) \in poisoned
    /\ owner[NeededLock(t)] = NoThread
    /\ IF hookLeft[t] > 0
       THEN /\ aborted' = TRUE
            /\ UNCHANGED <<lockVars, pc, entry, hookLeft, snap>>
       ELSE /\ StartPanic(t, PanicMessage([kind |-> "String", text |-> "PoisonError"]),
                          HeldBy(t) \cup {NeededLock(t)})
            /\ UNCHANGED aborted
    /\ UNCHANGED <<trackerVars, limit, recent, summary, taken, hooks, boundVars, pushed>>
    /\ UNCHANGED pureVars

\* lock() on a mutex whose guard the same thread holds never returns: std
\* leaves open whether it deadlocks ...
SelfLockDeadlock(t) ==
    /\ ~aborted
    /\ NeededLock(t) \in Locks
    /\ owner[NeededLock(t)] = t
    /\ pc' = [pc EXCEPT ![t] = "deadlocked"]
    /\ UNCHANGED <<trackerVars, lockVars, callVars, hookVars, aborted, boundVars, pushed>>
    /\ UNCHANGED pureVars

\* ... or panics (here always inside the panic hook: the process aborts)
SelfLockPanic(t) ==
    /\ ~aborted
    /\ NeededLock(t) \in Locks
    /\ owner[NeededLock(t)] = t
    /\ aborted' = TRUE
    /\ UNCHANGED <<trackerVars, lockVars, pc, callVars, hookVars, boundVars, pushed>>
    /\ UNCHANGED pureVars

\* the closure's last statement, `error!("{}", summary.format_terminal())`;
\* then the next chained closure runs, or the thread unwinds and ends
HookLog(t) ==
    /\ ~aborted
    /\ pc[t] = "hook_log"
    /\ IF hookLeft[t] > 1
       THEN /\ hookLeft' = [hookLeft EXCEPT ![t] = @ - 1]
            /\ entry' = [entry EXCEPT ![t] = CrashEntry(@.message)]
            /\ snap' = [snap EXCEPT ![t] = Counts]
            /\ pc' = [pc EXCEPT ![t] = "rec_seq"]
            /\ UNCHANGED lockVars
       ELSE /\ hookLeft' = [hookLeft EXCEPT ![t] = 0]
            /\ entry' = [entry EXCEPT ![t] = NoEntry]
            /\ snap' = [snap EXCEPT ![t] = NoSummary]
            /\ pc' = [pc EXCEPT ![t] = "dead"]
            /\ owner' = [l \in Locks |-> IF owner[l] = t THEN NoThread ELSE owner[l]]
            /\ poisoned' = poisoned \cup HeldBy(t)
    /\ UNCHANGED <<trackerVars, limit, recent, summary, taken, hooks, aborted, boundVars,
                   pushed>>
    /\ UNCHANGED pureVars

(***************************** specifications ******************************)
\* the tracker's four operations called from several threads at once
Next ==
    \E t \in Threads :
        \/ CallRecord(t, Severities)
        \/ CallGetRecent(t, ConcLimits)
        \/ CallGetSummary(t)
        \/ CallClear(t)
        \/ RecordNextSeq(t)
        \/ RecordAssignId(t)
        \/ RecordCount(t)
        \/ RecordLog(t)
        \/ RecordStore(t)
        \/ RecordEvict(t)
        \/ GetRecentRead(t)
        \/ SummaryTotal(t)
        \/ SummaryErrors(t)
        \/ SummaryWarnings(t)
        \/ SummaryCritical(t)
        \/ SummaryDrop(t)
        \/ ClearErrors(t)
        \/ ClearErrorCount(t)
        \/ ClearWarningCount(t)
        \/ ClearCriticalCount(t)

Spec == Init /\ [][Next]_vars

\* several threads recording and reading summaries while the hook is
\* installed and threads crash, also inside a call
NextCrash ==
    \E t \in Threads :
        \/ CallRecord(t, CrashSeverities)
        \/ CallGetSummary(t)
        \/ RecordNextSeq(t)
        \/ RecordAssignId(t)
        \/ RecordCount(t)
        \/ RecordLog(t)
        \/ RecordStore(t)
        \/ RecordEvict(t)
        \/ SummaryTotal(t)
        \/ SummaryErrors(t)
        \/ SummaryWarnings(t)
        \/ SummaryCritical(t)
        \/ SummaryDrop(t)
        \/ InitTakeHook(t)
        \/ InitSetHook(t)
        \/ Crash(t)
        \/ FaultInCall(t)
        \/ PoisonPanic(t)
        \/ SelfLockDeadlock(t)
        \/ SelfLockPanic(t)
        \/ HookLog(t)

SpecCrash == InitCrash /\ [][NextCrash]_vars

\* one thread: every call returns before the next one starts
NextSeq ==
    \/ CallRecord(SeqThread, Severities)
    \/ CallGetRecent(SeqThread, Limits)
    \/ CallGetSummary(SeqThread)
    \/ CallClear(SeqThread)
    \/ RecordNextSeq(SeqThread)
    \/ RecordAssignId(SeqThread)
    \/ RecordCount(SeqThread)
    \/ RecordLog(SeqThread)
    \/ RecordStore(SeqThread)
    \/ RecordEvict(SeqThread)
    \/ GetRecentRead(SeqThread)
    \/ SummaryTotal(SeqThread)
    \/ SummaryErrors(SeqThread)
    \/ SummaryWarnings(SeqThread)
    \/ SummaryCritical(SeqThread)
    \/ SummaryDrop(SeqThread)
    \/ ClearErrors(SeqThread)
    \/ ClearErrorCount(SeqThread)
    \/ ClearWarningCount(SeqThread)
    \/ ClearCriticalCount(SeqThread)
    \/ InitTakeHook(SeqThread)
    \/ InitSetHook(SeqThread)
    \/ Crash(SeqThread)
    \/ HookLog(SeqThread)

SpecSeq == InitSeq /\ [][NextSeq]_vars

(***************************** concurrent calls, fairly scheduled **********)
\* severities of the entries recorded in SpecLive: one counted, one not
LiveSeverities == {"Info", "Error"}

InitLive == InitFrom(EmptyTracker, MaxLiveOps)

\* a thread calls one of the four operations
Start(t) ==
    \/ CallRecord(t, LiveSeverities)
    \/ CallGetRecent(t, ConcLimits)
    \/ CallGetSummary(t)
    \/ CallClear(t)

\* a thread executes the next statement of the operation it is in
Step(t) ==
    \/ RecordNextSeq(t)
    \/ RecordAssignId(t)
    \/ RecordCount(t)
    \/ RecordLog(t)
    \/ RecordStore(t)
    \/ RecordEvict(t)
    \/ GetRecentRead(t)
    \/ SummaryTotal(t)
    \/ SummaryErrors(t)
    \/ SummaryWarnings(t)
    \/ SummaryCritical(t)
    \/ SummaryDrop(t)
    \/ ClearErrors(t)
    \/ ClearErrorCount(t)
    \/ ClearWarningCount(t)
    \/ ClearCriticalCount(t)

NextLive == \E t \in Threads : Start(t) \/ Step(t)

\* the scheduler runs every thread that can run: the next statement of a
\* thread that stays able to execute is executed
SpecLive ==
    InitLive /\ [][NextLive]_vars /\ \A t \in Threads : WF_vars(Step(t))

(***************************** record_app_error() calls ********************)
\* sources the callers of record_app_error() name
AppSources == {"DB"}

\* `record_app_error(source, err)`: the entry is built from err.to_value()
\* and handed to record()
CallRecordAppError(t, codes) ==
    \E code \in codes, src \in AppSources :
        Call(t, "rec_seq", AppErrorEntry(src, ErrorValueNew(code, "m")), 0)

InitApp == InitFrom(EmptyTracker, MaxAppOps)

\* one thread reporting application errors, with the crash hook
NextApp ==
    \/ CallRecordAppError(SeqThread, ErrorCodes)
    \/ RecordNextSeq(SeqThread)
    \/ RecordAssignId(SeqThread)
    \/ RecordCount(SeqThread)
    \/ RecordLog(SeqThread)
    \/ RecordStore(SeqThread)
    \/ RecordEvict(SeqThread)
    \/ SummaryTotal(SeqThread)
    \/ SummaryErrors(SeqThread)
    \/ SummaryWarnings(SeqThread)
    \/ SummaryCritical(SeqThread)
    \/ SummaryDrop(SeqThread)
    \/ InitTakeHook(SeqThread)
    \/ InitSetHook(SeqThread)
    \/ Crash(SeqThread)
    \/ HookLog(SeqThread)

SpecApp == InitApp /\ [][NextApp]_allVars

(***************************** ErrorHandler calls **************************)
\* the errors handed to the handler: of every kind, built by Error::new or
\* Error::with_message, with and without a context pair and a source
HandledErrors ==
    LET bases == {ErrorNew(k) : k \in AppKinds}
                 \cup {ErrorWithMessage(k, "custom") : k \in AppKinds}
        withCtx == bases \cup {ErrorWithContext(e, "user_id", "123") : e \in bases}
    IN  withCtx \cup {ErrorWithSource(e, "io error") : e \in withCtx}

\* codes a mapping is registered for (UNREGISTERED is no error's code) and
\* the codes they are mapped to
RegisteredCodes == {"NOT_FOUND", "INTERNAL_ERROR", "UNREGISTERED"}
MappedCodes == {"E404", "E500"}

InitHandler ==
    /\ InitTracker(EmptyTracker, 0)
    /\ err \in HandledErrors
    /\ attached = <<>>
    /\ found = NoFound
    /\ checked = <<>>
    /\ ResultIdle
    /\ handler = HandlerNew
    /\ feature \in BOOLEAN
    /\ response = NoResponse
    /\ json = NoJson
    /\ logged = <<>>
    /\ hpc = "building"
    /\ ValueIdle

\* `handler.with_backtrace(enable)`
HandlerSetBacktrace ==
    /\ hpc = "building"
    /\ \E enable \in BOOLEAN : handler' = HandlerWithBacktrace(handler, enable)
    /\ UNCHANGED <<vars, errorVars, resultVars, valueVars, feature, response, json,
                   logged, hpc>>

\* `handler.with_source(enable)`
HandlerSetSource ==
    /\ hpc = "building"
    /\ \E enable \in BOOLEAN : handler' = HandlerWithSource(handler, enable)
    /\ UNCHANGED <<vars, errorVars, resultVars, valueVars, feature, response, json,
                   logged, hpc>>

\* `handler.with_error_code(code, mapped)`
HandlerRegister ==
    /\ hpc = "building"
    /\ \E code \in RegisteredCodes, mapped \in MappedCodes :
        /\ code \in DOMAIN handler.error_codes
           \/ Cardinality(DOMAIN handler.error_codes) < MaxCodes
        /\ handler' = HandlerWithErrorCode(handler, code, mapped)
    /\ UNCHANGED <<vars, errorVars, resultVars, valueVars, feature, response, json,
                   logged, hpc>>

\* `let response = handler.handle(&error);`
DoHandle ==
    /\ hpc = "building"
    /\ response' = Handle(handler, err, feature)
    /\ logged' = LogError(handler, err)
    /\ hpc' = "handled"
    /\ UNCHANGED <<vars, errorVars, resultVars, valueVars, handler, feature, json>>

\* `let json = response.to_json();`
DoToJson ==
    /\ hpc = "handled"
    /\ json' = ToJson(response, feature)
    /\ hpc' = "serialized"
    /\ UNCHANGED <<vars, errorVars, resultVars, valueVars, handler, feature, response,
                   logged>>

NextHandler ==
    \/ HandlerSetBacktrace
    \/ HandlerSetSource
    \/ HandlerRegister
    \/ DoHandle
    \/ DoToJson

SpecHandler == InitHandler /\ [][NextHandler]_allVars

(***************************** ErrorValue calls ****************************)
\* the strings and the context keys the builder calls are given
Texts == {"x", "y"}
ContextKeys == {"table", "entity"}
FieldName == "user_id"
CauseText == "SQLite operation failed"

InitValue ==
    /\ InitTracker(EmptyTracker, 0)
    /\ ErrorIdle
    /\ ResultIdle
    /\ HandlerIdle
    /\ ev \in {ErrorValueNew(code, "m") : code \in ErrorCodes}
    /\ chain = <<>>
    /\ resp = ToResponse(NoErrorValue)
    /\ vpc = "building"

\* one more builder call on the value
Build(c) ==
    /\ vpc = "building"
    /\ Len(chain) < MaxChain
    /\ ev' = ApplyCall(ev, c)
    /\ chain' = Append(chain, c)
    /\ UNCHANGED <<vars, errorVars, resultVars, handlerVars, resp, vpc>>

ValueWithDetails == \E text \in Texts : Build(BuilderCall("with_details", "", text))
ValueWithField == Build(BuilderCall("with_field", "", FieldName))
ValueWithCause == Build(BuilderCall("with_cause", "", CauseText))
ValueWithContext ==
    \E key \in ContextKeys, text \in Texts : Build(BuilderCall("with_context", key, text))

\* `let json = error.to_response();`
ValueToResponse ==
    /\ vpc = "building"
    /\ resp' = ToResponse(ev)
    /\ vpc' = "responded"
    /\ UNCHANGED <<vars, errorVars, resultVars, handlerVars, ev, chain>>

NextValue ==
    \/ ValueWithDetails
    \/ ValueWithField
    \/ ValueWithCause
    \/ ValueWithContext
    \/ ValueToResponse

SpecValue == InitValue /\ [][NextValue]_allVars

(***************************** Error and ResultExt calls ********************)
\* the errors context is attached to, and the failures with_context is
\* called on
ErrorKinds ==
    {AppKind("Domain", "Validation", "a"), AppKind("Domain", "NotFound", "a"),
     AppKind("Infrastructure", "Database", "b")}

\* keys and values given to Error::with_context; MissingKey is never attached
AttachKeys == {"user_id", "attempt"}
AttachValues == {"123", "3"}
MissingKey == "missing"

\* the Results ResultExt::with_context is called on
Results == {Ok(1), Ok(2)} \cup {Err(k) : k \in ErrorKinds}

InitError ==
    /\ InitTracker(EmptyTracker, 0)
    /\ err \in {ErrorNew(k) : k \in ErrorKinds}
    /\ attached = <<>>
    /\ found = NoFound
    /\ checked = <<>>
    /\ ResultIdle
    /\ HandlerIdle
    /\ ValueIdle

\* `error = error.with_context(key, value);`
ErrAttach ==
    /\ Len(attached) < MaxAttach
    /\ \E key \in AttachKeys, value \in AttachValues :
        /\ err' = ErrorWithContext(err, key, value)
        /\ attached' = Append(attached, <<key, value>>)
    /\ UNCHANGED <<vars, found, checked, resultVars, handlerVars, valueVars>>

\* `error.context_value(key)`
ErrLookup ==
    /\ \E key \in AttachKeys \cup {MissingKey} :
        found' = [key |-> key, value |-> ContextValue(err, key)]
    /\ UNCHANGED <<vars, err, attached, checked, resultVars, handlerVars, valueVars>>

\* `result.with_context(|| "ctx")`: the closure is counted when it runs
ResultCall ==
    /\ \E r \in Results :
        /\ r.tag = "Err" => failures < MaxResults
        /\ given' = r
        /\ outcome' = ResultWithContext(r, "ctx")
        /\ closureCalls' = closureCalls + ClosureCalls(r)
        /\ failures' = failures + (IF r.tag = "Err" THEN 1 ELSE 0)
    /\ UNCHANGED <<vars, errorVars, extVars, handlerVars, valueVars>>

NextError ==
    \/ ErrAttach
    \/ ErrLookup
    \/ ResultCall

SpecError == InitError /\ [][NextError]_allVars

(***************************** specification: AppError *********************)
InitKinds == InitFrom(EmptyTracker, 0)

\* an AppError is constructed and its code, text and predicates are read
Classify ==
    /\ Len(checked) < MaxKinds
    /\ \E k \in AppKinds : checked' = Append(checked, Observe(k))
    /\ UNCHANGED <<vars, err, attached, found, resultVars, handlerVars, valueVars>>

NextKinds == Classify

SpecKinds == InitKinds /\ [][NextKinds]_allVars

(***************************** specification: ResultExt and OptionExt ******)
\* the contexts given to ResultExt::context
ContextMessages == {"Failed to validate user", "Failed to load"}

\* the Options OptionExt::ok_or_not_found is called on
Options == {None, Some(42), Some(7)}

\* the Results the methods are called on
ExtResults == Results \cup {Err(NotFound("Item", "1"))}

InitResult == InitFrom(EmptyTracker, 0)

\* `result.context(msg)`
ContextCall ==
    /\ \E r \in ExtResults, msg \in ContextMessages :
        /\ method' = "context"
        /\ arg' = msg
        /\ given' = r
        /\ outcome' = ResultContext(r, msg)
    /\ UNCHANGED <<vars, errorVars, closureCalls, failures, option, asked, converted,
                   okRuns, errRuns, returned, handlerVars, valueVars>>

\* `option.ok_or_not_found(entity, id)`
OkOrNotFoundCall ==
    /\ \E o \in Options, entity \in Entities, id \in Ids :
        /\ method' = "ok_or_not_found"
        /\ option' = o
        /\ asked' = <<entity, id>>
        /\ converted' = OkOrNotFound(o, entity, id)
    /\ UNCHANGED <<vars, errorVars, given, outcome, closureCalls, failures, arg,
                   okRuns, errRuns, returned, handlerVars, valueVars>>

\* `result.handle(ok, err)`: each closure is counted when it runs
HandleCall ==
    /\ \E r \in ExtResults :
        /\ method' = "handle"
        /\ given' = r
        /\ okRuns' = OkRuns(r)
        /\ errRuns' = ErrRuns(r)
        /\ returned' = ResultHandle(r)
    /\ UNCHANGED <<vars, errorVars, outcome, closureCalls, failures, arg, option,
                   asked, converted, handlerVars, valueVars>>

NextResult ==
    \/ ContextCall
    \/ OkOrNotFoundCall
    \/ HandleCall

SpecResult == InitResult /\ [][NextResult]_allVars

(***************************** properties **********************************)
CountSev(s, sev) == Cardinality({i \in 1..Len(s) : s[i].severity = sev})

\* the last n elements of s (all of s when it is shorter)
LastN(s, n) == SubSeq(s, Len(s) - Min(n, Len(s)) + 1, Len(s))

Quiescent == \A t \in Threads : pc[t] = "idle"

\* the threads whose record() has assigned an id and not yet stored the entry
Recording(t) == pc[t] \in {"rec_count", "rec_log", "rec_store", "rec_evict"}

\* no thread is between the push and the eviction of its record(): the
\* errors lock is free or held by a reader
Observable == \A t \in Threads : pc[t] # "rec_evict"

\* the threads inside clear()
Clearing(t) ==
    pc[t] \in {"clr_errors", "clr_error_count", "clr_warning_count", "clr_critical_count"}

\* C1: under every interleaving of the four operations the history, in
\* every state in which the errors lock can be taken, and every length or
\* list an observer obtained from it, holds at most MAX_ERROR_HISTORY
\* entries: nobody reads between the push and the eviction of one record().
C1_HistoryBounded ==
    /\ Observable => Len(errors) <= MAX_ERROR_HISTORY
    /\ \A t \in Threads :
        /\ Len(recent[t]) <= MAX_ERROR_HISTORY
        /\ summary[t].total <= MAX_ERROR_HISTORY

\* more entries were pushed than fit, and a concurrent observer read the
\* full history
C1_Witness ==
    /\ Observable
    /\ Len(pushed) > MAX_ERROR_HISTORY
    /\ Len(errors) = MAX_ERROR_HISTORY
    /\ \E t \in Threads : summary[t].total = MAX_ERROR_HISTORY

\* C2: with sequential calls the history is exactly the last
\* MAX_ERROR_HISTORY entries recorded since the last clear(), in insertion
\* order, whatever their severities.
C2_FifoEviction == Observable => errors = LastN(pushed, MAX_ERROR_HISTORY)

\* the oldest entry, a Critical one, was evicted and only Info entries stay
C2_Witness ==
    /\ Observable
    /\ Len(pushed) > MAX_ERROR_HISTORY
    /\ pushed[1].severity = "Critical"
    /\ \A i \in 1..Len(errors) : errors[i].severity = "Info"

\* C3: no id in use (in the history, or held by a thread still recording)
\* exceeds the sequence counter; the counter step adds 1; and the id a
\* record() reads is the counter's value, greater than every id read before.
\* So ids are unique and increase in assignment order under concurrent
\* callers.
C3_UniqueIncreasingIds ==
    [][/\ \A t \in Threads : Recording(t) => entry[t].id \in 1..sequence
       /\ \A i \in 1..Len(errors) : errors[i].id \in 1..sequence
       /\ \A t \in Threads :
            /\ (pc[t] = "rec_seq" /\ pc'[t] # "rec_seq") => sequence' = sequence + 1
            /\ (pc[t] = "rec_id" /\ pc'[t] # "rec_id") =>
                /\ entry'[t].id = sequence
                /\ \A u \in Threads \ {t} : Recording(u) => entry[u].id < entry'[t].id
                /\ \A i \in 1..Len(errors) : errors[i].id < entry'[t].id]_vars

\* two threads are inside record() at once, each with its own id
C3_Witness ==
    \E t, u \in Threads :
        /\ t # u
        /\ Recording(t)
        /\ Recording(u)
        /\ entry[t].id # entry[u].id

\* C4 (as claimed): once all calls have returned, no entry is in the queue
\* whose counter increment a clear() zeroed, and no counter is non-zero
\* whose entries a clear() removed.
C4_ClearAtomic ==
    Quiescent =>
        /\ CountSev(errors, "Error") <= error_count
        /\ CountSev(errors, "Warning") <= warning_count
        /\ CountSev(errors, "Critical") <= critical_count
        /\ error_count > 0 => CountSev(pushed, "Error") > 0
        /\ warning_count > 0 => CountSev(pushed, "Warning") > 0
        /\ critical_count > 0 => CountSev(pushed, "Critical") > 0

\* C5 (as claimed): a get_summary() that has read its four fields (and still
\* holds the four guards), with no clear() in flight, never reports a
\* severity counter above the number of entries of that severity pushed
\* since the last clear(): it never sees the counter of a record() whose
\* entry is not in the history yet.
C5_NoPartialRecord ==
    \A t \in Threads :
        (pc[t] = "sum_drop" /\ \A u \in Threads : ~Clearing(u)) =>
            /\ summary[t].errors <= CountSev(pushed, "Error")
            /\ summary[t].warnings <= CountSev(pushed, "Warning")
            /\ summary[t].critical <= CountSev(pushed, "Critical")

\* C6: the step of get_recent(limit) returns min(limit, len) entries, the
\* i-th being the i-th newest of the history, returns nothing for limit 0,
\* and leaves the tracker as it was.
C6_GetRecent ==
    [][\A t \in Threads :
        (pc[t] = "recent" /\ pc'[t] # "recent") =>
            LET n == Len(errors)
                k == Min(limit[t], n)
            IN  /\ Len(recent'[t]) = k
                /\ \A i \in 1..k : recent'[t][i] = errors[n + 1 - i]
                /\ limit[t] = 0 => recent'[t] = <<>>
                /\ UNCHANGED <<trackerVars, pushed>>]_vars

\* get_recent(2) on a longer history returned the two newest, newest first
C6_Witness ==
    \E t \in Threads :
        /\ pc[t] = "idle"
        /\ limit[t] = 2
        /\ Len(errors) > 2
        /\ Len(recent[t]) = 2
        /\ recent[t][1] = errors[Len(errors)]
        /\ recent[t][2] = errors[Len(errors) - 1]

\* C7 (as claimed): a get_summary() that runs with no other call in flight
\* returns total = the history length (at most the capacity) and, for each
\* counted severity, the number of record() calls of that severity completed
\* since the last clear().
C7_SummaryCounts ==
    \A t \in Threads :
        (pc[t] = "sum_drop" /\ \A u \in Threads \ {t} : pc[u] = "idle") =>
            /\ summary[t].total = Len(errors)
            /\ summary[t].total <= MAX_ERROR_HISTORY
            /\ summary[t].errors = CountSev(pushed, "Error")
            /\ summary[t].warnings = CountSev(pushed, "Warning")
            /\ summary[t].critical = CountSev(pushed, "Critical")

\* C8: of the steps of one record(), the id steps consume one sequence value
\* and change no counter, the counter step adds 1 to the counter of the
\* entry's severity and leaves the other two alone, and the log, store and
\* eviction steps change no counter; an Info entry skips the counter step, every other
\* severity takes it; the store step appends the entry whatever its severity.
C8_CounterFrame ==
    [][\A t \in Threads :
        LET sev == entry[t].severity
            d(name) == IF (name = "warning_count" /\ sev = "Warning")
                          \/ (name = "error_count" /\ sev = "Error")
                          \/ (name = "critical_count" /\ sev = "Critical")
                       THEN 1 ELSE 0
        IN  /\ (pc[t] = "rec_seq" /\ pc'[t] # "rec_seq") =>
                /\ sequence' = sequence + 1
                /\ UNCHANGED <<error_count, warning_count, critical_count>>
            /\ (pc[t] = "rec_id" /\ pc'[t] # "rec_id") =>
                /\ entry'[t].id = sequence
                /\ UNCHANGED <<error_count, warning_count, critical_count>>
                /\ pc'[t] = IF sev = "Info" THEN "rec_log" ELSE "rec_count"
            /\ (pc[t] = "rec_count" /\ pc'[t] # "rec_count") =>
                /\ sev # "Info"
                /\ error_count' = error_count + d("error_count")
                /\ warning_count' = warning_count + d("warning_count")
                /\ critical_count' = critical_count + d("critical_count")
            /\ (pc[t] = "rec_log" /\ pc'[t] # "rec_log") =>
                UNCHANGED <<error_count, warning_count, critical_count>>
            /\ (pc[t] = "rec_store" /\ pc'[t] # "rec_store") =>
                /\ UNCHANGED <<error_count, warning_count, critical_count>>
                /\ Len(errors') > 0
                /\ errors'[Len(errors')] = entry[t]
            /\ (pc[t] = "rec_evict" /\ pc'[t] # "rec_evict") =>
                UNCHANGED <<error_count, warning_count, critical_count>>]_vars

\* an Info entry was recorded first (id 1, no counter touched) and a Warning
\* after it (warning_count = 1, the other counters 0)
C8_Witness ==
    /\ Quiescent
    /\ Len(errors) = 2
    /\ errors[1].severity = "Info" /\ errors[1].id = 1
    /\ errors[2].severity = "Warning" /\ errors[2].id = 2
    /\ warning_count = 1 /\ error_count = 0 /\ critical_count = 0

\* C9: when a capture closure that started below capacity has recorded and
\* read the summary (nothing else running), critical and total have grown by
\* exactly 1 over the counts at its start, warnings and errors are as they
\* were, and get_recent(1) is the crash entry: Critical, source PANIC, the
\* panic's message.
C9_CrashRecorded ==
    \A t \in Threads :
        (pc[t] = "hook_log" /\ snap[t].total < MAX_ERROR_HISTORY) =>
            /\ summary[t].critical = snap[t].critical + 1
            /\ summary[t].total = snap[t].total + 1
            /\ summary[t].warnings = snap[t].warnings
            /\ summary[t].errors = snap[t].errors
            /\ Len(GetRecent(errors, 1)) = 1
            /\ GetRecent(errors, 1)[1].severity = "Critical"
            /\ GetRecent(errors, 1)[1].source = "PANIC"
            /\ GetRecent(errors, 1)[1].message = entry[t].message
            /\ GetRecent(errors, 1)[1].message \in {"boom", "Unknown panic"}

\* the crash came after five Warning entries: critical is 1, total is 6
C9_Witness ==
    \E t \in Threads :
        /\ pc[t] = "hook_log"
        /\ snap[t] = [total |-> 5, errors |-> 0, warnings |-> 5, critical |-> 0]
        /\ summary[t] = [total |-> 6, errors |-> 0, warnings |-> 5, critical |-> 1]

\* C10 (as claimed): the capture hook never blocks forever on a tracker lock
\* and never panics inside the hook.
C10_HookCompletes ==
    /\ ~aborted
    /\ \A t \in Threads : pc[t] # "deadlocked"

\* C11 (as claimed): the capture hook is installed once: the installed panic
\* hook never chains more than one capture closure, so no crash is handed
\* to more than one capture closure.
C11_InstalledOnce ==
    /\ hooks <= 1
    /\ \A t \in Threads : hookLeft[t] <= 1

\* C12 (as claimed): Critical comes from crash capture only: every entry in
\* the history, or on its way into it, that has severity Critical carries
\* the source tag PANIC.
C12_CriticalOnlyFromCrash ==
    /\ \A i \in 1..Len(errors) :
         errors[i].severity = "Critical" => errors[i].source = "PANIC"
    /\ \A t \in Threads :
         entry[t].severity = "Critical" => entry[t].source = "PANIC"

\* the handler has handled the error
Handled == hpc \in {"handled", "serialized"}

\* C13: every line handle() logs has the level the claim's table gives the
\* error's kind: Warn for Domain NotFound, Domain Validation and every
\* Application error, Error for every other kind; the level is the same for
\* every field value, message, context, source and handler option.
C13_LevelByKind ==
    Handled =>
        /\ Len(logged) >= 1
        /\ \A i \in 1..Len(logged) :
             logged[i].level =
                IF \/ err.kind.layer = "Domain" /\ err.kind.variant \in {"NotFound", "Validation"}
                   \/ err.kind.layer = "Application"
                THEN "Warn" ELSE "Error"

\* a Timeout handled by a handler with options set and an error with
\* context and source is logged at Warn, a Conflict at Error
C13_Witness ==
    /\ Handled
    /\ err.kind.layer = "Application"
    /\ err.kind.variant = "Timeout"
    /\ err.context # EmptyMap
    /\ err.source # None
    /\ handler.include_source
    /\ handler.error_codes # EmptyMap
    /\ Len(logged) = 2
    /\ logged[1].level = "Warn"

\* C14 (as claimed): an Internal, Infrastructure or Plugin error is handled
\* at Error, and only Domain Validation and Domain NotFound errors are
\* handled at Warn.
C14_InternalIsError ==
    Handled =>
        /\ (\/ err.kind.layer \in {"Infrastructure", "Plugin"}
            \/ err.kind.layer = "Application" /\ err.kind.variant = "Internal")
           => logged[1].level = "Error"
        /\ logged[1].level = "Warn" =>
             err.kind.layer = "Domain" /\ err.kind.variant \in {"NotFound", "Validation"}

\* C15: handle() leaves the handler and the error as they are, the error's
\* code() is the canonical code of its kind, and response.error.code is the
\* code registered for that canonical code if one is, the canonical code
\* otherwise, whatever is registered for other codes.
C15_CodeOverride ==
    [][(hpc = "building" /\ hpc' = "handled") =>
          /\ err' = err
          /\ handler' = handler
          /\ ErrorCodeOf(err') = AppErrorCode(err.kind)
          /\ response'.error.message = err.message
          /\ response'.error.context = err.context
          /\ response'.error.code =
                IF ErrorCodeOf(err) \in DOMAIN handler.error_codes
                THEN handler.error_codes[ErrorCodeOf(err)]
                ELSE ErrorCodeOf(err)]_allVars

\* NOT_FOUND is mapped to E404 and INTERNAL_ERROR to E500: a not-found
\* error is answered with E404 and keeps the code NOT_FOUND
C15_Witness ==
    /\ hpc = "handled"
    /\ err.kind.layer = "Domain"
    /\ err.kind.variant = "NotFound"
    /\ handler.error_codes = MapInsert(MapInsert(EmptyMap, "NOT_FOUND", "E404"),
                                       "INTERNAL_ERROR", "E500")
    /\ response.error.code = "E404"
    /\ ErrorCodeOf(err) = "NOT_FOUND"

\* C16 (as claimed): in the JSON, success is false, and the error object has
\* the key source exactly when include_source is set and the error has a
\* source, the key context exactly when the context is not empty, and the
\* key backtrace exactly when include_backtrace is set and a trace was
\* captured.
C16_OptionalKeys ==
    hpc = "serialized" =>
        /\ json.success = JBool(FALSE)
        /\ "source" \in DOMAIN json.error[2]
             <=> (handler.include_source /\ err.source # None)
        /\ "context" \in DOMAIN json.error[2] <=> err.context # EmptyMap
        /\ "backtrace" \in DOMAIN json.error[2]
             <=> (handler.include_backtrace /\ CapturedBacktrace(feature) # None)

\* the builder calls of the chain that set the field `op` sets
CallsOf(op) == {i \in 1..Len(chain) : chain[i].op = op}

\* the value the last call of `op` in the chain was given
LastOf(op) == chain[CHOOSE i \in CallsOf(op) : \A j \in CallsOf(op) : j <= i].value

\* C17: to_response() has code, a string that is the Display form of the
\* code, and message; it has details, field, cause and context exactly when
\* a builder call set them, with the value last set; no member is null.
C17_ToResponse ==
    vpc = "responded" =>
        /\ {"code", "message"} \subseteq DOMAIN resp
        /\ resp["code"][1] = "string"
        /\ resp["code"][2] = ErrorCodeDisplay(ev.code)
        /\ resp["message"] = <<"string", "m">>
        /\ \A k \in DOMAIN resp : resp[k][1] # "null"
        /\ \A f \in {"details", "field", "cause"} :
             /\ f \in DOMAIN resp <=> CallsOf("with_" \o f) # {}
             /\ f \in DOMAIN resp => resp[f] = <<"string", LastOf("with_" \o f)>>
        /\ "context" \in DOMAIN resp <=> CallsOf("with_context") # {}
        /\ "context" \in DOMAIN resp =>
             /\ resp["context"][1] = "object"
             /\ DOMAIN resp["context"][2] =
                    {chain[i].key : i \in CallsOf("with_context")}

\* a DbNotFound with a field and a context pair: code is "DB_NOT_FOUND",
\* there are field and context, and neither details nor cause
C17_Witness ==
    /\ vpc = "responded"
    /\ ev.code = "DbNotFound"
    /\ resp["code"] = <<"string", "DB_NOT_FOUND">>
    /\ DOMAIN resp = {"code", "message", "field", "context"}

\* the with_context calls made with this key
AttachedWith(key) == {i \in 1..Len(attached) : attached[i][1] = key}

\* the value of the last with_context call made with this key, if any
LastAttached(key) ==
    IF AttachedWith(key) = {} THEN None
    ELSE Some(attached[CHOOSE i \in AttachedWith(key) :
                          \A j \in AttachedWith(key) : j <= i][2])

\* C18: context_value(key) is the value of the last with_context call made
\* with that key, None for a key never attached; the context holds one pair
\* for each key attached; a with_context call leaves the value of every
\* other key as it was; a lookup returns context_value's result.
C18_ContextLastWins ==
    [][/\ \A key \in AttachKeys \cup {MissingKey} :
            ContextValue(err, key) = LastAttached(key)
       /\ DOMAIN err.context = {attached[i][1] : i \in 1..Len(attached)}
       /\ attached' # attached =>
            \A key \in (AttachKeys \cup {MissingKey}) \ {attached'[Len(attached')][1]} :
                ContextValue(err', key) = ContextValue(err, key)
       /\ found' # found => found'.value = LastAttached(found'.key)]_allVars

\* user_id is attached, then attempt, then user_id again with another
\* value: the lookup of user_id returns the second value
C18_Witness ==
    /\ attached = <<<<"user_id", "123">>, <<"attempt", "3">>, <<"user_id", "3">>>>
    /\ found = [key |-> "user_id", value |-> Some("3")]
    /\ ContextValue(err, "attempt") = Some("3")

\* the orders of n calls
OrdersOf(n) == {f \in [1..n -> 1..n] : \A i, j \in 1..n : i # j => f[i] # f[j]}
AllOrders == [n \in 0..MaxChain |-> OrdersOf(n)]
Orders(n) == AllOrders[n]

\* the chain's calls in the order f
Reordered(f) == [i \in 1..Len(chain) |-> chain[f[i]]]

\* the value a chain of builder calls builds from ErrorValue::new
RECURSIVE Built(_, _)
Built(v, calls) ==
    IF calls = <<>> THEN v ELSE Built(ApplyCall(v, Head(calls)), Tail(calls))

\* two with_context calls on the same key
SameKey(c, d) == c.op = "with_context" /\ d.op = "with_context" /\ c.key = d.key

\* two calls that set the same field, or the same context key
SameSlot(c, d) == IF c.op = "with_context" THEN SameKey(c, d) ELSE c.op = d.op

\* C19 (as claimed): the chain's calls applied in any other order, two
\* with_context calls on the same key kept in their order, build the same
\* ErrorValue.
C19_BuildersCommute ==
    \A f \in Orders(Len(chain)) :
        (\A i, j \in 1..Len(chain) :
            (i < j /\ SameKey(chain[f[i]], chain[f[j]])) => f[i] < f[j])
        => Built(ErrorValueNew(ev.code, "m"), Reordered(f)) = ev

\* C19 (amended): the chain's calls applied in any other order, two calls
\* that set the same field or the same context key kept in their order,
\* build the same ErrorValue, and code and message are as new() set them.
C19_CommuteLastWins ==
    /\ ev.message = "m"
    /\ \A f \in Orders(Len(chain)) :
        (\A i, j \in 1..Len(chain) :
            (i < j /\ SameSlot(chain[f[i]], chain[f[j]])) => f[i] < f[j])
        => Built(ErrorValueNew(ev.code, "m"), Reordered(f)) = ev

\* three calls setting three different fields, and a chain that sets the
\* details twice with a field in between
C19_Witness ==
    /\ Len(chain) = 3
    /\ chain[1].op = "with_details"
    /\ chain[2].op = "with_field"
    /\ chain[3].op = "with_details"
    /\ chain[1].value # chain[3].value
    /\ ev.details = Some(chain[3].value)
    /\ ev.field = Some(chain[2].value)

\* C20: the closures given to with_context have run once for each call made
\* on a failure and not at all for the calls made on a success; a success is
\* returned as it was given, a failure as a failure.
C20_LazyContext ==
    /\ closureCalls = failures
    /\ given.tag = "Ok" => outcome = given
    /\ given.tag = "Err" =>
         /\ outcome.tag = "Err"
         /\ outcome.error[1].kind = given.error[1]

\* two failures, then a success: the closure has run twice and the success
\* came back unchanged
C20_Witness ==
    /\ failures = 2
    /\ closureCalls = 2
    /\ given.tag = "Ok"
    /\ given.value = Some(2)
    /\ outcome = given

(***************************** C21 *****************************************)
\* C21: context(msg) on a failure returns an Error whose message is msg, then
\* ": ", then the display text of the original error, and whose kind is the
\* original one (same code, same is_validation and is_not_found); a success
\* is returned unchanged.
C21_ContextWraps ==
    method = "context" =>
        IF given.tag = "Err"
        THEN /\ outcome.tag = "Err"
             /\ outcome.error[1].message
                    = arg \o ": " \o AppErrorDisplay(given.error[1])
             /\ outcome.error[1].kind = given.error[1]
             /\ ErrorCodeOf(outcome.error[1]) = AppErrorCode(given.error[1])
             /\ IsValidation(outcome.error[1].kind) = IsValidation(given.error[1])
             /\ IsNotFound(outcome.error[1].kind) = IsNotFound(given.error[1])
        ELSE outcome = given

\* a validation failure was given the context "Failed to validate user"
C21_Witness ==
    /\ method = "context"
    /\ given = Err(Validation("email", "a"))
    /\ arg = "Failed to validate user"
    /\ outcome.tag = "Err"
    /\ outcome.error[1].message
           = "Failed to validate user: Domain error: Validation failed for 'email': a"
    /\ IsValidation(outcome.error[1].kind)

(***************************** C22 *****************************************)
\* C22: ok_or_not_found(entity, id) turns Some(v) into Ok(v), and None into
\* an error that is_not_found, has the code NOT_FOUND, and carries the entity
\* and the id it was given.
C22_OkOrNotFound ==
    method = "ok_or_not_found" =>
        IF option = None
        THEN /\ converted.tag = "Err"
             /\ IsNotFound(converted.error[1])
             /\ AppErrorCode(converted.error[1]) = "NOT_FOUND"
             /\ converted.error[1].subject = asked[1]
             /\ converted.error[1].detail = asked[2]
        ELSE /\ converted.tag = "Ok"
             /\ converted.value = option

\* None was converted for the entity "Item" and the id "123"
C22_Witness ==
    /\ method = "ok_or_not_found"
    /\ option = None
    /\ asked = <<"Item", "123">>
    /\ converted.tag = "Err"
    /\ converted.error[1].subject = "Item"

(***************************** C23 *****************************************)
\* C23: handle(ok, err) invokes exactly one of its two closures, exactly
\* once: `ok` on the value of a success, `err` on the error of a failure; it
\* returns what that closure returned.
C23_HandleTotal ==
    method = "handle" =>
        /\ okRuns + errRuns = 1
        /\ okRuns = 1 <=> given.tag = "Ok"
        /\ given.tag = "Ok" => returned = OnSuccess(given.value[1])
        /\ given.tag = "Err" => returned = OnFailure(given.error[1])

\* a not-found failure was handled by the second closure alone
C23_Witness ==
    /\ method = "handle"
    /\ given = Err(NotFound("Item", "1"))
    /\ okRuns = 0
    /\ errRuns = 1
    /\ returned = -1

(***************************** C24 *****************************************)
\* the codes of the 16 leaf variants
LeafCodes ==
    {"NOT_FOUND", "VALIDATION_ERROR", "BUSINESS_RULE_VIOLATION", "CONFLICT",
     "DATABASE_ERROR", "FILE_SYSTEM_ERROR", "NETWORK_ERROR", "SERIALIZATION_ERROR",
     "INVALID_STATE", "TIMEOUT", "CANCELED", "INTERNAL_ERROR", "PLUGIN_NOT_FOUND",
     "PLUGIN_LOAD_FAILED", "PLUGIN_INIT_FAILED", "PLUGIN_DEPENDENCY_MISSING"}

SameLeaf(k1, k2) == k1.layer = k2.layer /\ k1.variant = k2.variant

\* C24: code() gives every error one of the 16 codes; two errors have the
\* same code exactly when they are of the same leaf variant, whatever their
\* fields; is_not_found, is_validation, is_conflict, is_timeout and
\* is_internal hold exactly of the errors with the codes NOT_FOUND,
\* VALIDATION_ERROR, CONFLICT, TIMEOUT and INTERNAL_ERROR.
C24_CodeIdentifiesLeaf ==
    \A i \in DOMAIN checked :
        /\ checked[i].code \in LeafCodes
        /\ \A j \in DOMAIN checked :
            checked[i].code = checked[j].code
                <=> SameLeaf(checked[i].kind, checked[j].kind)
        /\ "is_not_found" \in checked[i].holds <=> checked[i].code = "NOT_FOUND"
        /\ "is_validation" \in checked[i].holds
               <=> checked[i].code = "VALIDATION_ERROR"
        /\ "is_conflict" \in checked[i].holds <=> checked[i].code = "CONFLICT"
        /\ "is_timeout" \in checked[i].holds <=> checked[i].code = "TIMEOUT"
        /\ "is_internal" \in checked[i].holds
               <=> checked[i].code = "INTERNAL_ERROR"

\* a missing user and a missing plugin were classified: different codes, and
\* is_not_found holds of the first only
C24_Witness ==
    /\ Len(checked) = 2
    /\ checked[1].kind = NotFound("User", "123")
    /\ checked[2].kind = AppKind("Plugin", "NotFound", "a")
    /\ checked[1].code = "NOT_FOUND"
    /\ checked[2].code = "PLUGIN_NOT_FOUND"
    /\ checked[1].holds = {"is_not_found"}
    /\ checked[2].holds = {}

(***************************** C25 *****************************************)
\* C25: a not-found error has the code NOT_FOUND, is_not_found holds of it,
\* and its display text is its entity, " not found: ", and its id, with
\* nothing in front: "User not found: 123" for not_found("User", "123").
C25_NotFoundDisplay ==
    \A i \in DOMAIN checked :
        IsNotFound(checked[i].kind) =>
            /\ checked[i].code = "NOT_FOUND"
            /\ "is_not_found" \in checked[i].holds
            /\ checked[i].text
                   = checked[i].kind.subject \o " not found: " \o checked[i].kind.detail

(***************************** C26 *****************************************)
\* C26: a handle() call logs one line with the error's message and code at
\* the level of the error's kind, and after it one context line at the same
\* level exactly when the error has context; the response it returns has
\* success = false.
C26_LogLines ==
    Handled =>
        /\ Len(logged) = IF DOMAIN err.context = {} THEN 1 ELSE 2
        /\ logged[1].text
               = "[Error] " \o err.message \o " (code: " \o AppErrorCode(err.kind) \o ")"
        /\ logged[1].level =
               IF \/ IsNotFound(err.kind)
                  \/ IsValidation(err.kind)
                  \/ err.kind.layer = "Application"
               THEN "Warn" ELSE "Error"
        /\ \A i \in 2..Len(logged) :
               /\ logged[i].level = logged[1].level
               /\ logged[i].text = "Context"
        /\ response.success = FALSE

\* a not-found error with context was handled: two lines at Warn, the first
\* with the message and the code
C26_Witness ==
    /\ Handled
    /\ err.kind = NotFound("User", "123")
    /\ DOMAIN err.context # {}
    /\ Len(logged) = 2
    /\ logged[1] = [level |-> "Warn",
                    text |-> "[Error] Domain error: User not found: 123 (code: NOT_FOUND)"]
    /\ logged[2].level = "Warn"
    /\ response.success = FALSE

(***************************** C27 *****************************************)
\* C27: while the log line of a record() call is still to be written, the
\* caller holds no tracker lock and its entry, already counted, is already
\* in the history, so that a log sink that never returns keeps no counted
\* entry out of it.
C27_StoredBeforeLog ==
    (pc[SeqThread] = "rec_log" /\ CounterOf(entry[SeqThread].severity) # "none") =>
        /\ HeldBy(SeqThread) = {}
        /\ \E i \in 1..Len(errors) : errors[i].id = entry[SeqThread].id

(***************************** C28 *****************************************)
IdsIncrease(q) == \A i, j \in 1..Len(q) : i < j => q[i].id < q[j].id
IdsDecrease(q) == \A i, j \in 1..Len(q) : i < j => q[i].id > q[j].id

\* C28: in every state the ids in the history increase from front to back,
\* also while record() calls run side by side, and what get_recent()
\* returned has decreasing ids.
C28_HistoryOrdered ==
    /\ IdsIncrease(errors)
    /\ \A t \in Threads : IdsDecrease(recent[t])

(***************************** C29 *****************************************)
\* the ids of the entries a thread can still see
IdsSeen ==
    {errors[i].id : i \in 1..Len(errors)}
    \cup UNION {{recent[t][i].id : i \in 1..Len(recent[t])} : t \in Threads}
    \cup {entry[t].id : t \in {u \in Threads : Recording(u)}}

\* C29: the steps of clear() leave the sequence counter and every entry in
\* flight alone, the first emptying the history and the others zeroing one
\* counter each; the sequence counter never decreases; and the id a record()
\* assigns is greater than every id assigned before it, those of cleared
\* entries included.
C29_ClearKeepsSequence ==
    [][/\ sequence' >= sequence
       /\ \A id \in IdsSeen : id <= sequence
       /\ \A t \in Threads :
            /\ (pc[t] = "clr_errors" /\ pc'[t] # pc[t]) =>
                  /\ errors' = <<>>
                  /\ UNCHANGED <<sequence, error_count, warning_count, critical_count,
                                 entry>>
            /\ (pc[t] = "clr_error_count" /\ pc'[t] # pc[t]) =>
                  /\ error_count' = 0
                  /\ UNCHANGED <<sequence, errors, warning_count, critical_count, entry>>
            /\ (pc[t] = "clr_warning_count" /\ pc'[t] # pc[t]) =>
                  /\ warning_count' = 0
                  /\ UNCHANGED <<sequence, errors, error_count, critical_count, entry>>
            /\ (pc[t] = "clr_critical_count" /\ pc'[t] # pc[t]) =>
                  /\ critical_count' = 0
                  /\ UNCHANGED <<sequence, errors, error_count, warning_count, entry>>
            /\ (pc[t] = "rec_id" /\ pc'[t] # pc[t]) =>
                  /\ entry'[t].id = sequence
                  /\ \A id \in IdsSeen : id < entry'[t].id]_vars

\* 99 entries were recorded and read, the history was cleared, and the entry
\* recorded next has the id 100
C29_Witness ==
    /\ sequence = MAX_ERROR_HISTORY
    /\ Len(pushed) = 1
    /\ pushed[1].id = MAX_ERROR_HISTORY
    /\ errors = pushed
    /\ \E t \in Threads :
        /\ recent[t] # <<>>
        /\ \A i \in 1..Len(recent[t]) : recent[t][i].id < MAX_ERROR_HISTORY

(***************************** C30 *****************************************)
\* C30 as stated: no thread holds one tracker lock while it has another one
\* to acquire.
C30_NoHoldAndWait ==
    \A t \in Threads : NeededLock(t) # "none" => HeldBy(t) = {}

\* the order in which get_summary() locks
LockRank(l) ==
    CASE l = "errors" -> 1
      [] l = "error_count" -> 2
      [] l = "warning_count" -> 3
      [] l = "critical_count" -> 4
      [] OTHER -> 0

\* only get_summary() holds a lock while it acquires another, and the lock
\* it acquires comes after every lock it holds; the other operations hold
\* one lock at most
HoldsInOrder ==
    \A t \in Threads :
        /\ (NeededLock(t) # "none" /\ HeldBy(t) # {}) =>
              /\ pc[t] \in {"sum_errors", "sum_warnings", "sum_critical"}
              /\ \A l \in HeldBy(t) : LockRank(l) < LockRank(NeededLock(t))
        /\ pc[t] \notin {"sum_errors", "sum_warnings", "sum_critical", "sum_drop"} =>
              Cardinality(HeldBy(t)) <= 1
        /\ pc[t] = "idle" => HeldBy(t) = {}

\* C30, amended: record(), get_recent() and clear() hold one tracker lock at
\* most, get_summary() acquires the locks it holds together in one fixed
\* order, and with every thread scheduled fairly every call returns.
C30_OrderedLocksReturn ==
    /\ []HoldsInOrder
    /\ \A t \in Threads : (pc[t] # "idle") ~> (pc[t] = "idle")

\* get_summary() holds the history's lock and has error_count to lock next,
\* while a record() waits to push into the history
C30_Witness ==
    /\ pc["t1"] = "sum_errors"
    /\ owner["errors"] = "t1"
    /\ NeededLock("t1") = "error_count"
    /\ pc["t2"] = "rec_store"
    /\ NeededLock("t2") = "errors"

====
